---- MODULE Spec2Model ----
(***************************************************************************)
(* The serving fabric of the indexer: the Director (Server::spawn,         *)
(* Server::serve and its command loop, Server::statuses,                   *)
(* Server::check_for_shutdown, Server::shutdown_components) together with  *)
(* the tasks it supervises: the TCP and nym ingestors, the workers of the  *)
(* WorkerPool, and the producer tasks spawned by the streaming RPCs.       *)
(*                                                                         *)
(* Queue, WorkerPool, Worker and the ingestors are modelled from the       *)
(* design document (sections 4.4 - 4.8); the definitions that do so say    *)
(* it.  The byte readers of the block cache and the RPCs of the            *)
(* lightwallet service are modelled further down, each with a              *)
(* specification of its own (ParseSpec, TxidSpec, RpcSpec).                *)
(***************************************************************************)
EXTENDS Integers, Sequences, FiniteSets, TLC

(***************************************************************************)
(* Bounds of the model.                                                    *)
(***************************************************************************)
\* Largest max_worker_pool_size / idle_worker_pool_size drawn by Init.
MaxPoolSize == 2
\* Requests the ingestors enqueue in one run.
MaxEnqueues == 1
\* Producer tasks (streaming RPCs) spawned in one run.
MaxProducers == 1
\* Largest value of an AtomicStatus handed to check_for_shutdown.
MaxStatus == 6
\* Largest queue length handed to the scaling decision.
MaxLength == 3

\* Longest byte slice handed to the byte readers.
MaxSliceLen == 3
\* Largest count handed to skip_bytes and read_bytes.
MaxCount == 2

\* Most txids in one call of display_txids_to_server.
MaxTxids == 2
\* Most hex pairs (bytes) in the enumerated txids of one call, taken together.
MaxHexPairs == 3

\* Largest low half of a height in the enumerated requests of the service,
\* and largest height the validator reports for a transaction.
MaxHeight == 3

(***************************************************************************)
(* Program constants.                                                      *)
(***************************************************************************)
\* status.server_status.store(0)
Spawning == 0
\* self.status.server_status.store(1)
Ready == 1
\* Lifecycle state Draining of the design document (never stored by the Director).
Draining == 3
\* self.status.server_status.store(4)
ShuttingDown == 4
\* self.status.server_status.store(5); AtomicStatus::new(5)
Offline == 5
\* self.request_queue.max_length() / 4
ScaleUpDivisor == 4
\* queue_length() <= 1
ScaleDownLength == 1
\* Scaling scenario: max_queue_size and the number of queued requests.
ScenarioCapacity == 100
ScenarioLoad == 26
\* ... and the length it has dropped to.
ScenarioDrained == 1
\* tokio::sync::mpsc::channel(32)
ChannelCapacity == 32
\* hash.len() == 32
HashLength == 32

Queues == {"request", "nym_response"}
WorkerIds == 1 .. MaxPoolSize
ProducerIds == 1 .. MaxProducers
\* max_queue_size values drawn by Init.
QueueSizes == {4, 8}
PoolSizes == 0 .. MaxPoolSize

VARIABLES
    cfg,                  \* the arguments of Server::spawn
    pc,                   \* position of the Director (spawn / serve task)
    server_status,        \* status.server_status
    tcp_ingestor_status,  \* status.tcp_ingestor_status
    nym_ingestor_status,  \* status.nym_ingestor_status
    queue_status,         \* status.request_queue_status / nym_response_queue_status
    channel,              \* items held by each queue's channel
    loaded,               \* value read by queue_length() inside statuses()
    online,               \* Server.online
    workers,              \* WorkerPool.workers (ids, in push order)
    worker_handles,       \* serve()'s worker_handles (ids, in push order)
    popped,               \* handle passed to pop_worker (0: none)
    wtask,                \* task state of each worker
    wsignal,              \* per-worker shutdown signal
    tcp_task,             \* task state of the TcpIngestor
    nym_task,             \* task state of the NymIngestor
    producer,             \* task state of each stream producer
    enqueued,             \* requests enqueued so far
    logged,               \* last line serve() wrote to stderr in this iteration
    call,                 \* pure-function harness: the call
    ret,                  \* pure-function harness: its result
    stream_task,          \* position of the task a streaming RPC spawned
    iter,                 \* what is left of the iterator of its for loop
    item,                 \* the item it is sending (<<>>: none)
    channel_tx,           \* items held by the stream's mpsc channel
    channel_rx,           \* the receiving end: "open", "ended" or "dropped"
    sent,                 \* items the channel accepted, in order
    delivered,            \* items the stream yielded to its consumer, in order
    validator_calls,      \* calls made to the validator, in order
    calls_at_drop         \* number of validator calls when the consumer was dropped

\* The state of one RPC of the lightwallet service.
rpc_vars == <<stream_task, iter, item, channel_tx, channel_rx, sent, delivered,
              validator_calls, calls_at_drop>>

vars == <<cfg, pc, server_status, tcp_ingestor_status, nym_ingestor_status,
          queue_status, channel, loaded, online, workers, worker_handles,
          popped, wtask, wsignal, tcp_task, nym_task, producer, enqueued,
          logged, call, ret, rpc_vars>>

(***************************************************************************)
(* An AtomicUsize holds a machine word; fetch_sub on 0 wraps to the top of *)
(* the word.  The model keeps the counter as an integer and lets a         *)
(* negative value -k stand for the wrapped word 2^64 - k, so comparisons   *)
(* on the counter go through the operators below.                          *)
(***************************************************************************)
Wrapped(v) == v < 0
\* v >= k on machine words (k small and not wrapped)
UsizeGE(v, k) == Wrapped(v) \/ v >= k
\* v <= k on machine words
UsizeLE(v, k) == ~Wrapped(v) /\ v <= k
\* v < k on machine words
UsizeLT(v, k) == ~Wrapped(v) /\ v < k
\* v > k on machine words
UsizeGT(v, k) == Wrapped(v) \/ v > k

Configs ==
    [tcp_active : BOOLEAN, tcp_ingestor_listen_addr : BOOLEAN,
     nym_active : BOOLEAN, nym_conf_path : BOOLEAN,
     max_queue_size : QueueSizes,
     max_worker_pool_size : PoolSizes,
     idle_worker_pool_size : PoolSizes]

NoCall == [fn |-> "none"]

\* The state before any RPC, and of every RPC that opens no stream.
NoRpc ==
    /\ stream_task = "none"
    /\ iter = <<>>
    /\ item = <<>>
    /\ channel_tx = <<>>
    /\ channel_rx = "none"
    /\ sent = <<>>
    /\ delivered = <<>>
    /\ validator_calls = <<>>
    /\ calls_at_drop = 0

director_vars ==
    <<cfg, pc, server_status, tcp_ingestor_status, nym_ingestor_status,
      queue_status, channel, loaded, online, workers, worker_handles,
      popped, wtask, wsignal, tcp_task, nym_task, producer, enqueued, logged>>

(***************************************************************************)
(* Helpers on sequences of worker ids.                                     *)
(***************************************************************************)
Range(s) == {s[i] : i \in 1 .. Len(s)}
\* Vec::remove(index), index counted from 0
RemoveAt(s, index) == [i \in 1 .. Len(s) - 1 |-> IF i <= index THEN s[i] ELSE s[i + 1]]
FirstWorkers(n) == [i \in 1 .. n |-> i]
FreeWorkerIds == {w \in WorkerIds : wtask[w] \in {"none", "joined"}}
FreshWorker == CHOOSE w \in FreeWorkerIds : \A v \in FreeWorkerIds : w <= v

(***************************************************************************)
(* Queue (design document 4.4): a channel of fixed capacity with a shared  *)
(* atomic length counter, incremented on enqueue and decremented on        *)
(* dequeue.  The channel operation and the counter update are one step.    *)
(***************************************************************************)
\* Queue::max_length()
max_length == cfg.max_queue_size
\* Queue::queue_length(): loads the shared counter
queue_length(q) == queue_status[q]
\* QueueSender::try_send: Ok (TRUE) unless the channel is full
CanEnqueue(q) == channel[q] < max_length
Enqueue(q) ==
    /\ channel' = [channel EXCEPT ![q] = @ + 1]
    /\ queue_status' = [queue_status EXCEPT ![q] = @ + 1]
Dequeue(q) ==
    /\ channel' = [channel EXCEPT ![q] = @ - 1]
    /\ queue_status' = [queue_status EXCEPT ![q] = @ - 1]

(***************************************************************************)
(* WorkerPool (design document 4.8).                                       *)
(***************************************************************************)
\* WorkerPool::workers()
WorkerCount == Len(workers)
max_size == cfg.max_worker_pool_size
idle_size == cfg.idle_worker_pool_size
\* push_worker() -> Ok(handle) | AtCapacity when count == max
PushWorkerAtCapacity == WorkerCount = max_size

(***************************************************************************)
(* Server::spawn                                                           *)
(***************************************************************************)
\* Variant of the validation that forgets the nym conf path (C13 fails for it).
ServerConfigErrorWithoutConfPath(c) ==
    \/ (~c.tcp_active) /\ (~c.nym_active)
    \/ c.tcp_active /\ ~c.tcp_ingestor_listen_addr

ServerConfigError(c) ==
    \/ (~c.tcp_active) /\ (~c.nym_active)
    \/ c.tcp_active /\ ~c.tcp_ingestor_listen_addr
    \/ c.nym_active /\ ~c.nym_conf_path

Init ==
    /\ cfg \in Configs
    /\ pc = "new"
    /\ server_status = Offline
    /\ tcp_ingestor_status = Offline
    /\ nym_ingestor_status = Offline
    /\ queue_status = [q \in Queues |-> 0]
    /\ channel = [q \in Queues |-> 0]
    /\ loaded = 0
    /\ online = TRUE
    /\ workers = <<>>
    /\ worker_handles = <<>>
    /\ popped = 0
    /\ wtask = [w \in WorkerIds |-> "none"]
    /\ wsignal = [w \in WorkerIds |-> FALSE]
    /\ tcp_task = "none"
    /\ nym_task = "none"
    /\ producer = [k \in ProducerIds |-> "none"]
    /\ enqueued = 0
    /\ logged = ""
    /\ call = NoCall
    /\ ret = <<>>
    /\ NoRpc

\* Variant that stores Spawning before it validates (C35 fails for it).
SpawnConfigErrorAfterStore ==
    /\ pc = "new"
    /\ ServerConfigError(cfg)
    /\ server_status' = Spawning
    /\ pc' = "config_error"
    /\ UNCHANGED <<cfg, tcp_ingestor_status, nym_ingestor_status, queue_status,
                   channel, loaded, online, workers, worker_handles, popped, wtask,
                   wsignal, tcp_task, nym_task, producer, enqueued, logged, call,
                   ret, rpc_vars>>

SpawnConfigError ==
    /\ pc = "new"
    /\ ServerConfigError(cfg)
    /\ pc' = "config_error"
    /\ UNCHANGED <<cfg, server_status, tcp_ingestor_status, nym_ingestor_status,
                   queue_status, channel, loaded, online, workers, worker_handles,
                   popped, wtask, wsignal, tcp_task, nym_task, producer, enqueued,
                   logged, call, ret, rpc_vars>>

Spawn ==
    /\ pc = "new"
    /\ ~ServerConfigError(cfg)
    /\ server_status' = Spawning
    /\ queue_status' = [q \in Queues |-> 0]
    /\ tcp_task' = IF cfg.tcp_active THEN "spawned" ELSE "none"
    /\ tcp_ingestor_status' = IF cfg.tcp_active THEN Spawning ELSE tcp_ingestor_status
    /\ nym_task' = IF cfg.nym_active THEN "spawned" ELSE "none"
    /\ nym_ingestor_status' = IF cfg.nym_active THEN Spawning ELSE nym_ingestor_status
    /\ workers' = FirstWorkers(idle_size)
    /\ wtask' = [w \in WorkerIds |-> IF w <= idle_size THEN "spawned" ELSE "none"]
    \* the listen address and the conf path are moved into the ingestors
    /\ cfg' = [cfg EXCEPT !.tcp_ingestor_listen_addr = FALSE, !.nym_conf_path = FALSE]
    /\ pc' = "spawned"
    /\ UNCHANGED <<channel, loaded, online, worker_handles, popped, wsignal,
                   producer, enqueued, logged, call, ret, rpc_vars>>

(***************************************************************************)
(* Server::shutdown: callable while the caller still owns the Server, that *)
(* is before serve(self) takes it.                                         *)
(***************************************************************************)
Shutdown ==
    /\ pc = "spawned"
    /\ server_status # ShuttingDown
    /\ server_status' = ShuttingDown
    /\ UNCHANGED <<cfg, pc, tcp_ingestor_status, nym_ingestor_status, queue_status,
                   channel, loaded, online, workers, worker_handles, popped, wtask,
                   wsignal, tcp_task, nym_task, producer, enqueued, logged, call, ret, rpc_vars>>

(***************************************************************************)
(* Server::serve, up to the command loop.                                  *)
(***************************************************************************)
ServeStart ==
    /\ pc = "spawned"
    /\ nym_task' = IF nym_task = "spawned" THEN "serving" ELSE nym_task
    /\ nym_ingestor_status' = IF nym_task = "spawned" THEN Ready ELSE nym_ingestor_status
    /\ tcp_task' = IF tcp_task = "spawned" THEN "serving" ELSE tcp_task
    /\ tcp_ingestor_status' = IF tcp_task = "spawned" THEN Ready ELSE tcp_ingestor_status
    /\ wtask' = [w \in WorkerIds |-> IF wtask[w] = "spawned" THEN "ready" ELSE wtask[w]]
    /\ worker_handles' = workers
    /\ server_status' = Ready
    /\ pc' = "loop"
    /\ UNCHANGED <<cfg, queue_status, channel, loaded, online, workers, popped,
                   wsignal, producer, enqueued, logged, call, ret, rpc_vars>>

(***************************************************************************)
(* The command loop of Server::serve.  One iteration is: the scaling       *)
(* decision (pc "loop", then "elseif" when the first test fails), the      *)
(* await of pop_worker (pc "pop_wait"), statuses() (a load and a store on  *)
(* each queue's counter), check_for_shutdown (pc "check"), and either the  *)
(* shutdown sequence or interval.tick() back to "loop".                    *)
(***************************************************************************)
\* Variants of the two tests, against which the scaling properties are tried:
\* a strict comparison with the quarter of the capacity (C4 fails for it), ...
ScaleUpTestStrict(length, capacity, count, max) ==
    /\ UsizeGT(length, capacity \div ScaleUpDivisor)
    /\ count < max

\* ... a threshold of half the capacity (the scenario of C6 fails for it), ...
ScaleUpTestHalf(length, capacity, count, max) ==
    /\ UsizeGE(length, capacity \div (ScaleUpDivisor \div 2))
    /\ count < max

\* ... and a scale-down that waits for an empty queue (C5 fails for it).
ScaleDownTestEmpty(length, count, idle) ==
    /\ UsizeLT(length, ScaleDownLength)
    /\ count > idle

\* Variant whose scale-down also fires at two queued requests (C31 fails for it).
ScaleDownTestAtMostTwo(length, count, idle) ==
    /\ UsizeLE(length, ScaleDownLength + 1)
    /\ count > idle

\* queue_length() >= max_length() / 4 && workers() < max_size()
ScaleUpTest(length, capacity, count, max) ==
    /\ UsizeGE(length, capacity \div ScaleUpDivisor)
    /\ count < max

\* queue_length() <= 1 && workers() > idle_size()
ScaleDownTest(length, count, idle) ==
    /\ UsizeLE(length, ScaleDownLength)
    /\ count > idle

ScaleUpCondition ==
    ScaleUpTest(queue_length("request"), max_length, WorkerCount, max_size)

ScaleDownCondition ==
    ScaleDownTest(queue_length("request"), WorkerCount, idle_size)

\* The branch one iteration takes when both tests read the same length.
ScalingBranch(length, capacity, count, idle, max) ==
    IF ScaleUpTest(length, capacity, count, max) THEN "push_worker"
    ELSE IF ScaleDownTest(length, count, idle) THEN "pop_worker"
    ELSE "none"

\* Variant that retires the first worker above the idle ones (C28 fails for it).
worker_index_above_idle == idle_size

\* let worker_index = self.worker_pool.workers() - 1
worker_index == WorkerCount - 1

\* Variant of the scale-up that forgets the handle of the new worker (C29 fails
\* for it).
ScaleUpWithoutHandle ==
    /\ pc = "loop"
    /\ ScaleUpCondition
    /\ IF PushWorkerAtCapacity
          THEN /\ logged' = "WorkerPool at capacity"
               /\ UNCHANGED <<workers, wtask, wsignal>>
          ELSE /\ workers' = Append(workers, FreshWorker)
               /\ wtask' = [wtask EXCEPT ![FreshWorker] = "ready"]
               /\ wsignal' = [wsignal EXCEPT ![FreshWorker] = FALSE]
               /\ logged' = ""
    /\ pc' = "load_request"
    /\ UNCHANGED <<cfg, server_status, tcp_ingestor_status, nym_ingestor_status,
                   queue_status, channel, loaded, online, worker_handles, popped,
                   tcp_task, nym_task, producer, enqueued, call, ret, rpc_vars>>

\* Variant whose second test is an `if` of its own, tried after a scale-up as
\* well (C30 fails for it).
ScaleUpThenSecondTest ==
    /\ pc = "loop"
    /\ ScaleUpCondition
    /\ IF PushWorkerAtCapacity
          THEN /\ logged' = "WorkerPool at capacity"
               /\ UNCHANGED <<workers, worker_handles, wtask, wsignal>>
          ELSE /\ workers' = Append(workers, FreshWorker)
               /\ worker_handles' = Append(worker_handles, FreshWorker)
               /\ wtask' = [wtask EXCEPT ![FreshWorker] = "ready"]
               /\ wsignal' = [wsignal EXCEPT ![FreshWorker] = FALSE]
               /\ logged' = ""
    /\ pc' = "elseif"
    /\ UNCHANGED <<cfg, server_status, tcp_ingestor_status, nym_ingestor_status,
                   queue_status, channel, loaded, online, popped, tcp_task,
                   nym_task, producer, enqueued, call, ret, rpc_vars>>

ScaleUp ==
    /\ pc = "loop"
    /\ ScaleUpCondition
    /\ IF PushWorkerAtCapacity
          THEN /\ logged' = "WorkerPool at capacity"
               /\ UNCHANGED <<workers, worker_handles, wtask, wsignal>>
          ELSE /\ workers' = Append(workers, FreshWorker)
               /\ worker_handles' = Append(worker_handles, FreshWorker)
               /\ wtask' = [wtask EXCEPT ![FreshWorker] = "ready"]
               /\ wsignal' = [wsignal EXCEPT ![FreshWorker] = FALSE]
               /\ logged' = ""
    /\ pc' = "load_request"
    /\ UNCHANGED <<cfg, server_status, tcp_ingestor_status, nym_ingestor_status,
                   queue_status, channel, loaded, online, popped, tcp_task,
                   nym_task, producer, enqueued, call, ret, rpc_vars>>

NoScaleUp ==
    /\ pc = "loop"
    /\ ~ScaleUpCondition
    /\ pc' = "elseif"
    /\ logged' = ""
    /\ UNCHANGED <<cfg, server_status, tcp_ingestor_status, nym_ingestor_status,
                   queue_status, channel, loaded, online, workers, worker_handles,
                   popped, wtask, wsignal, tcp_task, nym_task, producer, enqueued,
                   call, ret, rpc_vars>>

\* worker_handles.remove(worker_index), then pop_worker(worker_handle) signals
\* the targeted worker and awaits it.  Vec::remove panics on an index out of range.
ScaleDown ==
    /\ pc = "elseif"
    /\ ScaleDownCondition
    /\ IF worker_index >= Len(worker_handles)
          THEN /\ pc' = "panicked"
               /\ UNCHANGED <<worker_handles, popped, wsignal>>
          ELSE /\ popped' = worker_handles[worker_index + 1]
               /\ worker_handles' = RemoveAt(worker_handles, worker_index)
               /\ wsignal' = [wsignal EXCEPT ![worker_handles[worker_index + 1]] = TRUE]
               /\ pc' = "pop_wait"
    /\ UNCHANGED <<cfg, server_status, tcp_ingestor_status, nym_ingestor_status,
                   queue_status, channel, loaded, online, workers, wtask, tcp_task,
                   nym_task, producer, enqueued, logged, call, ret, rpc_vars>>

\* pop_worker: the awaited worker has finished; it is joined and leaves the pool.
PopJoin ==
    /\ pc = "pop_wait"
    /\ wtask[popped] = "exited"
    /\ wtask' = [wtask EXCEPT ![popped] = "joined"]
    /\ workers' = SelectSeq(workers, LAMBDA w : w # popped)
    /\ popped' = 0
    /\ pc' = "load_request"
    /\ UNCHANGED <<cfg, server_status, tcp_ingestor_status, nym_ingestor_status,
                   queue_status, channel, loaded, online, worker_handles, wsignal,
                   tcp_task, nym_task, producer, enqueued, logged, call, ret, rpc_vars>>

NoScale ==
    /\ pc = "elseif"
    /\ ~ScaleDownCondition
    /\ pc' = "load_request"
    /\ UNCHANGED <<cfg, server_status, tcp_ingestor_status, nym_ingestor_status,
                   queue_status, channel, loaded, online, workers, worker_handles,
                   popped, wtask, wsignal, tcp_task, nym_task, producer, enqueued,
                   logged, call, ret, rpc_vars>>

(***************************************************************************)
(* Server::statuses: for each queue, queue_length() is loaded and the      *)
(* value is stored into the status counter, which is the counter the queue *)
(* was built with in Server::spawn.                                        *)
(***************************************************************************)
LoadPc(q) == IF q = "request" THEN "load_request" ELSE "load_nym_response"
StorePc(q) == IF q = "request" THEN "store_request" ELSE "store_nym_response"
AfterStorePc(q) == IF q = "request" THEN "load_nym_response" ELSE "check"

StatusesLoad(q) ==
    /\ pc = LoadPc(q)
    /\ loaded' = queue_length(q)
    /\ pc' = StorePc(q)
    /\ UNCHANGED <<cfg, server_status, tcp_ingestor_status, nym_ingestor_status,
                   queue_status, channel, online, workers, worker_handles, popped,
                   wtask, wsignal, tcp_task, nym_task, producer, enqueued, logged,
                   call, ret, rpc_vars>>

StatusesStore(q) ==
    /\ pc = StorePc(q)
    /\ queue_status' = [queue_status EXCEPT ![q] = loaded]
    /\ loaded' = 0
    /\ pc' = AfterStorePc(q)
    /\ UNCHANGED <<cfg, server_status, tcp_ingestor_status, nym_ingestor_status,
                   channel, online, workers, worker_handles, popped, wtask, wsignal,
                   tcp_task, nym_task, producer, enqueued, logged, call, ret, rpc_vars>>

(***************************************************************************)
(* Server::check_for_shutdown and Server::check_online                     *)
(***************************************************************************)
check_online(on) == on

\* Variant that already reports shutdown in state Draining (the amended C7 fails
\* for it).
check_for_shutdown_from_draining(status, on) ==
    IF status >= Draining THEN TRUE
    ELSE IF ~check_online(on) THEN TRUE
    ELSE FALSE

check_for_shutdown(status, on) ==
    IF status >= ShuttingDown THEN TRUE
    ELSE IF ~check_online(on) THEN TRUE
    ELSE FALSE

\* Variant that waits for the next tick without the shutdown check (C33 fails
\* for it).
TickWithoutCheck ==
    /\ pc = "check"
    /\ pc' = "loop"
    /\ UNCHANGED <<cfg, server_status, tcp_ingestor_status, nym_ingestor_status,
                   queue_status, channel, loaded, online, workers, worker_handles,
                   popped, wtask, wsignal, tcp_task, nym_task, producer, enqueued,
                   logged, call, ret, rpc_vars>>

\* interval.tick().await
Tick ==
    /\ pc = "check"
    /\ ~check_for_shutdown(server_status, online)
    /\ pc' = "loop"
    /\ UNCHANGED <<cfg, server_status, tcp_ingestor_status, nym_ingestor_status,
                   queue_status, channel, loaded, online, workers, worker_handles,
                   popped, wtask, wsignal, tcp_task, nym_task, producer, enqueued,
                   logged, call, ret, rpc_vars>>

\* self.status.server_status.store(4)
BeginShutdown ==
    /\ pc = "check"
    /\ check_for_shutdown(server_status, online)
    /\ server_status' = ShuttingDown
    /\ pc' = "shutdown_tcp"
    /\ UNCHANGED <<cfg, tcp_ingestor_status, nym_ingestor_status, queue_status,
                   channel, loaded, online, workers, worker_handles, popped, wtask,
                   wsignal, tcp_task, nym_task, producer, enqueued, logged, call, ret, rpc_vars>>

(***************************************************************************)
(* Server::shutdown_components                                             *)
(***************************************************************************)
\* tcp_ingestor_handle / nym_ingestor_handle are Some when the ingestor was launched
tcp_ingestor_handle == tcp_task # "none"
nym_ingestor_handle == nym_task # "none"

\* if let Some(handle) = tcp_ingestor_handle { status.store(4); ...
SignalTcp ==
    /\ pc = "shutdown_tcp"
    /\ IF tcp_ingestor_handle
          THEN /\ tcp_ingestor_status' = ShuttingDown
               /\ pc' = "join_tcp"
          ELSE /\ pc' = "shutdown_nym"
               /\ UNCHANGED tcp_ingestor_status
    /\ UNCHANGED <<cfg, server_status, nym_ingestor_status, queue_status, channel,
                   loaded, online, workers, worker_handles, popped, wtask, wsignal,
                   tcp_task, nym_task, producer, enqueued, logged, call, ret, rpc_vars>>

\* Variant that goes on without awaiting the TCP ingestor's handle (C36 fails
\* for it).
JoinTcpWithoutAwait ==
    /\ pc = "join_tcp"
    /\ pc' = "shutdown_nym"
    /\ UNCHANGED <<cfg, server_status, tcp_ingestor_status, nym_ingestor_status,
                   queue_status, channel, loaded, online, workers, worker_handles,
                   popped, wtask, wsignal, tcp_task, nym_task, producer, enqueued,
                   logged, call, ret, rpc_vars>>

\* ... handle.await.ok(); }
JoinTcp ==
    /\ pc = "join_tcp"
    /\ tcp_task = "exited"
    /\ tcp_task' = "joined"
    /\ pc' = "shutdown_nym"
    /\ UNCHANGED <<cfg, server_status, tcp_ingestor_status, nym_ingestor_status,
                   queue_status, channel, loaded, online, workers, worker_handles,
                   popped, wtask, wsignal, nym_task, producer, enqueued, logged,
                   call, ret, rpc_vars>>

\* Variant of the step below that drops the nym ingestor's handle instead of
\* signalling and awaiting it (C8 fails for it).
SignalNymDropped ==
    /\ pc = "shutdown_nym"
    /\ pc' = "shutdown_workers"
    /\ UNCHANGED <<cfg, server_status, tcp_ingestor_status, nym_ingestor_status,
                   queue_status, channel, loaded, online, workers, worker_handles,
                   popped, wtask, wsignal, tcp_task, nym_task, producer, enqueued,
                   logged, call, ret, rpc_vars>>

SignalNym ==
    /\ pc = "shutdown_nym"
    /\ IF nym_ingestor_handle
          THEN /\ nym_ingestor_status' = ShuttingDown
               /\ pc' = "join_nym"
          ELSE /\ pc' = "shutdown_workers"
               /\ UNCHANGED nym_ingestor_status
    /\ UNCHANGED <<cfg, server_status, tcp_ingestor_status, queue_status, channel,
                   loaded, online, workers, worker_handles, popped, wtask, wsignal,
                   tcp_task, nym_task, producer, enqueued, logged, call, ret, rpc_vars>>

JoinNym ==
    /\ pc = "join_nym"
    /\ nym_task = "exited"
    /\ nym_task' = "joined"
    /\ pc' = "shutdown_workers"
    /\ UNCHANGED <<cfg, server_status, tcp_ingestor_status, nym_ingestor_status,
                   queue_status, channel, loaded, online, workers, worker_handles,
                   popped, wtask, wsignal, tcp_task, producer, enqueued, logged,
                   call, ret, rpc_vars>>

\* self.worker_pool.shutdown(&mut worker_handles): signals all workers to drain ...
SignalWorkers ==
    /\ pc = "shutdown_workers"
    /\ wsignal' = [w \in WorkerIds |-> IF w \in Range(workers) THEN TRUE ELSE wsignal[w]]
    /\ pc' = "join_workers"
    /\ UNCHANGED <<cfg, server_status, tcp_ingestor_status, nym_ingestor_status,
                   queue_status, channel, loaded, online, workers, worker_handles,
                   popped, wtask, tcp_task, nym_task, producer, enqueued, logged,
                   call, ret, rpc_vars>>

\* ... then joins each handle it was given.
JoinWorkers ==
    /\ pc = "join_workers"
    /\ \A w \in Range(worker_handles) : wtask[w] = "exited"
    /\ wtask' = [w \in WorkerIds |->
                    IF w \in Range(worker_handles) THEN "joined" ELSE wtask[w]]
    /\ pc' = "store_offline"
    /\ UNCHANGED <<cfg, server_status, tcp_ingestor_status, nym_ingestor_status,
                   queue_status, channel, loaded, online, workers, worker_handles,
                   popped, wsignal, tcp_task, nym_task, producer, enqueued, logged,
                   call, ret, rpc_vars>>

\* self.status.server_status.store(5); return Ok(())
StoreOffline ==
    /\ pc = "store_offline"
    /\ server_status' = Offline
    /\ pc' = "done"
    /\ UNCHANGED <<cfg, tcp_ingestor_status, nym_ingestor_status, queue_status,
                   channel, loaded, online, workers, worker_handles, popped, wtask,
                   wsignal, tcp_task, nym_task, producer, enqueued, logged, call, ret, rpc_vars>>

(***************************************************************************)
(* The ingestors (design document 4.5, 4.6).  While serving, an ingestor   *)
(* try-enqueues requests (a full queue rejects the request and changes     *)
(* nothing); it stops once its status slot holds the shutdown signal.  The *)
(* nym ingestor also dispatches the responses of the nym response queue.   *)
(***************************************************************************)
IngestorEnqueue ==
    /\ tcp_task = "serving" \/ nym_task = "serving"
    /\ enqueued < MaxEnqueues
    /\ CanEnqueue("request")
    /\ Enqueue("request")
    /\ enqueued' = enqueued + 1
    /\ UNCHANGED <<cfg, pc, server_status, tcp_ingestor_status, nym_ingestor_status,
                   loaded, online, workers, worker_handles, popped, wtask, wsignal,
                   tcp_task, nym_task, producer, logged, call, ret, rpc_vars>>

NymDispatch ==
    /\ nym_task = "serving"
    /\ channel["nym_response"] > 0
    /\ Dequeue("nym_response")
    /\ UNCHANGED <<cfg, pc, server_status, tcp_ingestor_status, nym_ingestor_status,
                   loaded, online, workers, worker_handles, popped, wtask, wsignal,
                   tcp_task, nym_task, producer, enqueued, logged, call, ret, rpc_vars>>

TcpIngestorExit ==
    /\ tcp_task = "serving"
    /\ tcp_ingestor_status >= ShuttingDown
    /\ tcp_task' = "exited"
    /\ tcp_ingestor_status' = Offline
    /\ UNCHANGED <<cfg, pc, server_status, nym_ingestor_status, queue_status, channel,
                   loaded, online, workers, worker_handles, popped, wtask, wsignal,
                   nym_task, producer, enqueued, logged, call, ret, rpc_vars>>

NymIngestorExit ==
    /\ nym_task = "serving"
    /\ nym_ingestor_status >= ShuttingDown
    /\ nym_task' = "exited"
    /\ nym_ingestor_status' = Offline
    /\ UNCHANGED <<cfg, pc, server_status, tcp_ingestor_status, queue_status, channel,
                   loaded, online, workers, worker_handles, popped, wtask, wsignal,
                   tcp_task, producer, enqueued, logged, call, ret, rpc_vars>>

(***************************************************************************)
(* The workers (design document 4.7).  A ready worker dequeues a request   *)
(* and works on it; on completion a request of nym origin has its response *)
(* enqueued on the nym response queue (dropped when that queue is full),   *)
(* and a streaming RPC (get_block_range, get_taddress_txids) has spawned   *)
(* its producer task, whose JoinHandle is dropped at once.  A ready worker *)
(* that sees its shutdown signal or the online flag false stops.           *)
(***************************************************************************)
Origins == {o \in {"tcp", "nym"} : IF o = "tcp" THEN cfg.tcp_active ELSE cfg.nym_active}
FreeProducerIds == {k \in ProducerIds : producer[k] = "none"}

WorkerDequeue(w) ==
    /\ wtask[w] = "ready"
    /\ ~wsignal[w]
    /\ online
    /\ channel["request"] > 0
    /\ Dequeue("request")
    /\ wtask' = [wtask EXCEPT ![w] = "working"]
    /\ UNCHANGED <<cfg, pc, server_status, tcp_ingestor_status, nym_ingestor_status,
                   loaded, online, workers, worker_handles, popped, wsignal, tcp_task,
                   nym_task, producer, enqueued, logged, call, ret, rpc_vars>>

\* tokio::spawn(async move { ... }) in get_block_range / get_taddress_txids:
\* the JoinHandle is dropped.
SpawnProducer(k) == producer' = [producer EXCEPT ![k] = "detached"]

WorkerFinish(w) ==
    /\ wtask[w] = "working"
    /\ wtask' = [wtask EXCEPT ![w] = "ready"]
    /\ \E origin \in Origins :
          IF origin = "nym" /\ CanEnqueue("nym_response")
             THEN Enqueue("nym_response")
             ELSE UNCHANGED <<channel, queue_status>>
    /\ \/ UNCHANGED producer
       \/ \E k \in FreeProducerIds :
             /\ \A j \in FreeProducerIds : k <= j
             /\ SpawnProducer(k)
    /\ UNCHANGED <<cfg, pc, server_status, tcp_ingestor_status, nym_ingestor_status,
                   loaded, online, workers, worker_handles, popped, wsignal, tcp_task,
                   nym_task, enqueued, logged, call, ret, rpc_vars>>

WorkerExit(w) ==
    /\ wtask[w] = "ready"
    /\ wsignal[w] \/ ~online
    /\ wtask' = [wtask EXCEPT ![w] = "exited"]
    /\ UNCHANGED <<cfg, pc, server_status, tcp_ingestor_status, nym_ingestor_status,
                   queue_status, channel, loaded, online, workers, worker_handles,
                   popped, wsignal, tcp_task, nym_task, producer, enqueued, logged,
                   call, ret, rpc_vars>>

(***************************************************************************)
(* The operator: TestManager2::close and Drop store false into online.     *)
(***************************************************************************)
SetOffline ==
    /\ online
    /\ online' = FALSE
    /\ UNCHANGED <<cfg, pc, server_status, tcp_ingestor_status, nym_ingestor_status,
                   queue_status, channel, loaded, workers, worker_handles, popped,
                   wtask, wsignal, tcp_task, nym_task, producer, enqueued, logged,
                   call, ret, rpc_vars>>

DirectorLoop ==
    \/ ScaleUp \/ NoScaleUp \/ ScaleDown \/ PopJoin \/ NoScale
    \/ \E q \in Queues : StatusesLoad(q)
    \/ \E q \in Queues : StatusesStore(q)
    \/ Tick \/ BeginShutdown
    \/ SignalTcp \/ JoinTcp \/ SignalNym \/ JoinNym
    \/ SignalWorkers \/ JoinWorkers \/ StoreOffline

Director == SpawnConfigError \/ Spawn \/ ServeStart \/ DirectorLoop

Tasks ==
    \/ IngestorEnqueue \/ NymDispatch \/ TcpIngestorExit \/ NymIngestorExit
    \/ \E w \in WorkerIds : WorkerDequeue(w) \/ WorkerFinish(w) \/ WorkerExit(w)

Next == Director \/ Tasks \/ Shutdown \/ SetOffline

Spec == Init /\ [][Next]_vars

(***************************************************************************)
(* Scheduling: the executor keeps polling every task that can make         *)
(* progress, and the caller of Server::spawn goes on to call serve.  A     *)
(* worker that is working finishes its request; a signalled ingestor or    *)
(* worker stops.  Nothing is assumed of the ingestors' clients or of the   *)
(* operator.                                                               *)
(***************************************************************************)
Fairness ==
    /\ WF_vars(Director)
    /\ WF_vars(TcpIngestorExit)
    /\ WF_vars(NymIngestorExit)
    /\ \A w \in WorkerIds : WF_vars(WorkerFinish(w)) /\ WF_vars(WorkerExit(w))

FairSpec == Spec /\ Fairness

(***************************************************************************)
(* The scaling scenario: a serving server with max_queue_size 100 and      *)
(* idle < max, entering an iteration of the command loop with either 26    *)
(* requests queued and the pool at its idle size, or 1 request queued and  *)
(* the pool at any size it can have grown to.  The scenario holds the      *)
(* queue still: no request arrives and none is taken while the Director    *)
(* iterates.                                                               *)
(***************************************************************************)
ScalingConfigs ==
    {c \in [tcp_active : {TRUE}, tcp_ingestor_listen_addr : {FALSE},
            nym_active : {TRUE}, nym_conf_path : {FALSE},
            max_queue_size : {ScenarioCapacity},
            max_worker_pool_size : PoolSizes,
            idle_worker_pool_size : PoolSizes] :
        c.idle_worker_pool_size < c.max_worker_pool_size}

ScalingInit ==
    /\ cfg \in ScalingConfigs
    /\ pc = "loop"
    /\ server_status = Ready
    /\ tcp_ingestor_status = Ready
    /\ nym_ingestor_status = Ready
    /\ \E load \in {ScenarioLoad, ScenarioDrained} :
          /\ queue_status = [q \in Queues |-> IF q = "request" THEN load ELSE 0]
          /\ channel = [q \in Queues |-> IF q = "request" THEN load ELSE 0]
          /\ \E n \in idle_size .. max_size :
                /\ load = ScenarioLoad => n = idle_size
                /\ workers = FirstWorkers(n)
                /\ worker_handles = FirstWorkers(n)
                /\ wtask = [w \in WorkerIds |-> IF w <= n THEN "ready" ELSE "none"]
    /\ loaded = 0
    /\ online = TRUE
    /\ popped = 0
    /\ wsignal = [w \in WorkerIds |-> FALSE]
    /\ tcp_task = "serving"
    /\ nym_task = "serving"
    /\ producer = [k \in ProducerIds |-> "none"]
    /\ enqueued = 0
    /\ logged = ""
    /\ call = NoCall
    /\ ret = <<>>
    /\ NoRpc

ScalingNext ==
    \/ DirectorLoop
    \/ TcpIngestorExit \/ NymIngestorExit
    \/ \E w \in WorkerIds : WorkerExit(w)
    \/ SetOffline

ScalingSpec == ScalingInit /\ [][ScalingNext]_vars /\ Fairness

(***************************************************************************)
(* The command loop under a queue that is held still: a serving server     *)
(* enters an iteration with any capacity (the small ones, whose quarter is *)
(* 0 or 1, included), any length the queue can hold up to MaxLength, and   *)
(* any worker count the pool can have: idle_size, or a count between       *)
(* idle_size and max_size.  No request arrives and none is taken.          *)
(***************************************************************************)
SteadyCapacities == {1, 4, 8, 12, ScenarioCapacity}

SteadyConfigs ==
    [tcp_active : {TRUE}, tcp_ingestor_listen_addr : {FALSE},
     nym_active : {TRUE}, nym_conf_path : {FALSE},
     max_queue_size : SteadyCapacities,
     max_worker_pool_size : PoolSizes,
     idle_worker_pool_size : PoolSizes]

SteadyInit ==
    /\ cfg \in SteadyConfigs
    /\ pc = "loop"
    /\ server_status = Ready
    /\ tcp_ingestor_status = Ready
    /\ nym_ingestor_status = Ready
    /\ \E length \in 0 .. MaxLength :
          /\ length <= max_length
          /\ queue_status = [q \in Queues |-> IF q = "request" THEN length ELSE 0]
          /\ channel = [q \in Queues |-> IF q = "request" THEN length ELSE 0]
    /\ \E n \in {idle_size} \cup (idle_size .. max_size) :
          /\ workers = FirstWorkers(n)
          /\ worker_handles = FirstWorkers(n)
          /\ wtask = [w \in WorkerIds |-> IF w <= n THEN "ready" ELSE "none"]
    /\ loaded = 0
    /\ online = TRUE
    /\ popped = 0
    /\ wsignal = [w \in WorkerIds |-> FALSE]
    /\ tcp_task = "serving"
    /\ nym_task = "serving"
    /\ producer = [k \in ProducerIds |-> "none"]
    /\ enqueued = 0
    /\ logged = ""
    /\ call = NoCall
    /\ ret = <<>>
    /\ NoRpc

SteadySpec == SteadyInit /\ [][ScalingNext]_vars /\ Fairness

(***************************************************************************)
(* Pure functions of the Director, applied to drawn arguments.             *)
(***************************************************************************)
StatusValues == 0 .. MaxStatus
Lengths == 0 .. MaxLength

FnCalls ==
    [fn : {"check_for_shutdown"}, status : StatusValues, online : BOOLEAN]
    \cup [fn : {"scaling"}, length : Lengths,
          capacity : QueueSizes \cup {1, ScenarioCapacity},
          count : PoolSizes, idle : PoolSizes, max : PoolSizes]

FnConfig ==
    [tcp_active |-> TRUE, tcp_ingestor_listen_addr |-> TRUE,
     nym_active |-> FALSE, nym_conf_path |-> FALSE,
     max_queue_size |-> ScenarioCapacity,
     max_worker_pool_size |-> 0, idle_worker_pool_size |-> 0]

FnInit ==
    /\ cfg = FnConfig
    /\ pc = "new"
    /\ server_status = Offline
    /\ tcp_ingestor_status = Offline
    /\ nym_ingestor_status = Offline
    /\ queue_status = [q \in Queues |-> 0]
    /\ channel = [q \in Queues |-> 0]
    /\ loaded = 0
    /\ online = TRUE
    /\ workers = <<>>
    /\ worker_handles = <<>>
    /\ popped = 0
    /\ wtask = [w \in WorkerIds |-> "none"]
    /\ wsignal = [w \in WorkerIds |-> FALSE]
    /\ tcp_task = "none"
    /\ nym_task = "none"
    /\ producer = [k \in ProducerIds |-> "none"]
    /\ enqueued = 0
    /\ logged = ""
    /\ call \in FnCalls
    /\ ret = <<>>
    /\ NoRpc

CallCheckForShutdown ==
    /\ call.fn = "check_for_shutdown"
    /\ ret = <<>>
    /\ ret' = <<check_for_shutdown(call.status, call.online)>>
    /\ UNCHANGED <<cfg, pc, server_status, tcp_ingestor_status, nym_ingestor_status,
                   queue_status, channel, loaded, online, workers, worker_handles,
                   popped, wtask, wsignal, tcp_task, nym_task, producer, enqueued,
                   logged, call, rpc_vars>>

CallScaling ==
    /\ call.fn = "scaling"
    /\ ret = <<>>
    /\ ret' = <<ScalingBranch(call.length, call.capacity, call.count, call.idle,
                              call.max)>>
    /\ UNCHANGED <<cfg, pc, server_status, tcp_ingestor_status, nym_ingestor_status,
                   queue_status, channel, loaded, online, workers, worker_handles,
                   popped, wtask, wsignal, tcp_task, nym_task, producer, enqueued,
                   logged, call, rpc_vars>>

FnNext == CallCheckForShutdown \/ CallScaling

FnSpec == FnInit /\ [][FnNext]_vars

(***************************************************************************)
(* Server::spawn on its own: every configuration, one call.                *)
(***************************************************************************)
SpawnNext == SpawnConfigError \/ Spawn

SpawnSpec == Init /\ [][SpawnNext]_vars

(***************************************************************************)
(* blockcache/utils.rs: the byte readers over a Cursor<&[u8]>.  A cursor   *)
(* is a slice `data` and a position `pos` (bytes already consumed).  A     *)
(* u64 / usize is an integer; as for the queue counters, -k stands for     *)
(* 2^64 - k.  A 64-bit value that is read or built is kept as its eight    *)
(* bytes, least significant first, so that shifts lose what the code's     *)
(* shifts lose.  A result is [kind, msg, value, pos]: kind is "Ok",        *)
(* "InvalidData", "Io" or "panic"; pos is the cursor position afterwards.  *)
(***************************************************************************)
OP_0 == 0
OP_1_NEGATE == 79
OP_1 == 81
OP_16 == 96

Bytes == {0, 1, 2, 18, 52, OP_1_NEGATE, OP_1 - 1, OP_1, OP_16, OP_16 + 1}

\* One slice long enough for read_u64 and for a script number of nine bytes.
LongData == <<9, 1, 2, 3, 4, 5, 6, 7, 8, 9>>

ByteSlices == UNION {[1 .. n -> Bytes] : n \in 0 .. MaxSliceLen} \cup {LongData}

\* usize::MAX and usize::MAX - 1 next to the small counts.
Counts == (0 .. MaxCount) \cup {-1, -2}

U64Add(a, b) == a + b

U64AddOverflows(a, b) ==
    /\ Wrapped(a) \/ Wrapped(b)
    /\ (Wrapped(a) /\ Wrapped(b)) \/ a + b >= 0

U64LT(a, b) == IF Wrapped(a) = Wrapped(b) THEN a < b ELSE Wrapped(b)

Ok(value, pos) == [kind |-> "Ok", msg |-> "", value |-> value, pos |-> pos]
InvalidData(msg, pos) == [kind |-> "InvalidData", msg |-> msg, value |-> <<>>, pos |-> pos]
Io(pos) == [kind |-> "Io", msg |-> "failed to fill whole buffer", value |-> <<>>, pos |-> pos]
Panic(pos) == [kind |-> "panic", msg |-> "", value |-> <<>>, pos |-> pos]

\* pos + n as u64 with overflow checks on (debug builds) panics on overflow; with
\* them off (release builds) it wraps.
skip_bytes(data, pos, n, error_msg, overflow_checks) ==
    IF U64AddOverflows(pos, n) /\ overflow_checks THEN {Panic(pos)}
    ELSE IF U64LT(Len(data), U64Add(pos, n)) THEN {InvalidData(error_msg, pos)}
    ELSE {Ok(<<>>, U64Add(pos, n))}

\* Read::read_exact of Cursor: all n bytes or an error.  After an error the
\* position is either left alone or put at the end of the slice, depending on
\* the version of the standard library.
read_exact(data, pos, n) ==
    IF Len(data) - pos >= n
    THEN {[ok |-> TRUE, buf |-> SubSeq(data, pos + 1, pos + n), pos |-> pos + n]}
    ELSE {[ok |-> FALSE, buf |-> <<>>, pos |-> q] : q \in {pos, Len(data)}}

\* vec![0; n] panics ("capacity overflow") when n exceeds isize::MAX.
read_bytes(data, pos, n, error_msg) ==
    IF Wrapped(n) THEN {Panic(pos)}
    ELSE {IF r.ok THEN Ok(r.buf, r.pos) ELSE InvalidData(error_msg, r.pos) :
            r \in read_exact(data, pos, n)}

\* .map_err(ParseError::from).map_err(|_| ParseError::InvalidData(error_msg))
MapErr(r, error_msg) == IF r.kind = "Io" THEN InvalidData(error_msg, r.pos) ELSE r

\* byteorder's read_u64 / read_u32 / read_i32 / read_u8: read_exact into a buffer
\* of the type's size; the bytes read are the value, least significant first.
ReadLittleEndian(data, pos, size) ==
    {IF r.ok THEN Ok(r.buf, r.pos) ELSE Io(r.pos) : r \in read_exact(data, pos, size)}

read_u64(data, pos, error_msg) ==
    {MapErr(r, error_msg) : r \in ReadLittleEndian(data, pos, 8)}

read_u32(data, pos, error_msg) ==
    {MapErr(r, error_msg) : r \in ReadLittleEndian(data, pos, 4)}

read_i32(data, pos, error_msg) ==
    {MapErr(r, error_msg) : r \in ReadLittleEndian(data, pos, 4)}

\* Variant that takes every non-zero byte for true (C17 fails for it).
BoolOfByteNonZero(byte, error_msg, pos) ==
    IF byte = 0 THEN Ok(<<FALSE>>, pos) ELSE Ok(<<TRUE>>, pos)

\* match byte { 0 => Ok(false), 1 => Ok(true), _ => Err(InvalidData) }
BoolOfByte(byte, error_msg, pos) ==
    IF byte = 0 THEN Ok(<<FALSE>>, pos)
    ELSE IF byte = 1 THEN Ok(<<TRUE>>, pos)
    ELSE InvalidData(error_msg, pos)

read_bool(data, pos, error_msg) ==
    {IF r.kind = "Ok" THEN BoolOfByte(r.value[1], error_msg, r.pos) ELSE r :
        r \in {MapErr(b, error_msg) : b \in ReadLittleEndian(data, pos, 1)}}

\* A small i64 as its eight bytes (two's complement, least significant first).
I64Bytes(v) ==
    IF v < 0 THEN <<256 + v, 255, 255, 255, 255, 255, 255, 255>>
    ELSE <<v, 0, 0, 0, 0, 0, 0, 0>>

\* (acc << 8) | u64::from(byte) on a u64
ShiftLeft8Or(acc, byte) == <<byte>> \o SubSeq(acc, 1, 7)

\* num_bytes.iter().rev().fold(0, |acc, &byte| (acc << 8) | u64::from(byte)),
\* with i bytes still to fold: the last byte is folded first.
RECURSIVE FoldRev(_, _, _)
FoldRev(num_bytes, i, acc) ==
    IF i = 0 THEN acc
    ELSE FoldRev(num_bytes, i - 1, ShiftLeft8Or(acc, num_bytes[i]))

\* Variant that folds the bytes in slice order, first byte first (big-endian;
\* the amended C18 fails for it).
RECURSIVE FoldForward(_, _, _)
FoldForward(num_bytes, i, acc) ==
    IF i = 0 THEN acc
    ELSE FoldForward(num_bytes, i - 1,
                     ShiftLeft8Or(acc, num_bytes[Len(num_bytes) - i + 1]))

ScriptNumberBigEndian(num_bytes) == FoldForward(num_bytes, Len(num_bytes), I64Bytes(0))

ScriptNumber(num_bytes) == FoldRev(num_bytes, Len(num_bytes), I64Bytes(0))

\* Variant of the OP_1 ..= OP_16 arm that is off by one (C19 fails for it).
SmallIntegerFromOp1(first_byte) == first_byte - OP_1

\* (u64::from(first_byte) - u64::from(OP_1 - 1)) as i64
SmallInteger(first_byte) == first_byte - (OP_1 - 1)

\* Variant of the match whose length-prefixed arm leaves the payload unconsumed
\* (C39 fails for it).
ScriptMatchPeeking(data, first_byte, pos) ==
    IF first_byte = OP_1_NEGATE THEN {Ok(I64Bytes(-1), pos)}
    ELSE IF first_byte = OP_0 THEN {Ok(I64Bytes(0), pos)}
    ELSE IF OP_1 <= first_byte /\ first_byte <= OP_16
         THEN {Ok(I64Bytes(SmallInteger(first_byte)), pos)}
    ELSE {IF r.kind = "Ok" THEN Ok(ScriptNumber(r.value), pos) ELSE r :
            r \in read_bytes(data, pos, first_byte, "Error reading i64 script hash")}

ScriptMatch(data, first_byte, pos) ==
    IF first_byte = OP_1_NEGATE THEN {Ok(I64Bytes(-1), pos)}
    ELSE IF first_byte = OP_0 THEN {Ok(I64Bytes(0), pos)}
    ELSE IF OP_1 <= first_byte /\ first_byte <= OP_16
         THEN {Ok(I64Bytes(SmallInteger(first_byte)), pos)}
    ELSE {IF r.kind = "Ok" THEN Ok(ScriptNumber(r.value), r.pos) ELSE r :
            r \in read_bytes(data, pos, first_byte, "Error reading i64 script hash")}

read_zcash_script_i64(data, pos) ==
    UNION {IF r.kind = "Ok" THEN ScriptMatch(data, r.value[1], r.pos) ELSE {r} :
            r \in read_bytes(data, pos, 1, "Error reading first byte in i64 script hash")}

ParseFns == {"read_u64", "read_u32", "read_i32", "read_bool", "read_zcash_script_i64"}

ParseCall(fn, data, pos, n, overflow_checks) ==
    [fn |-> fn, data |-> data, pos |-> pos, n |-> n, error_msg |-> "error_msg",
     overflow_checks |-> overflow_checks]

\* The calls: every slice, every position in it, every function; the counts of
\* skip_bytes and read_bytes; both builds where the addition can overflow.
IsParseCall(c) ==
    \E data \in ByteSlices : \E pos \in 0 .. Len(data) :
        \/ \E fn \in ParseFns : c = ParseCall(fn, data, pos, 0, FALSE)
        \/ \E n \in Counts : c = ParseCall("read_bytes", data, pos, n, FALSE)
        \/ \E n \in Counts : \E checks \in IF Wrapped(n) THEN BOOLEAN ELSE {FALSE} :
              c = ParseCall("skip_bytes", data, pos, n, checks)

ParseInit ==
    /\ cfg = FnConfig
    /\ pc = "new"
    /\ server_status = Offline
    /\ tcp_ingestor_status = Offline
    /\ nym_ingestor_status = Offline
    /\ queue_status = [q \in Queues |-> 0]
    /\ channel = [q \in Queues |-> 0]
    /\ loaded = 0
    /\ online = TRUE
    /\ workers = <<>>
    /\ worker_handles = <<>>
    /\ popped = 0
    /\ wtask = [w \in WorkerIds |-> "none"]
    /\ wsignal = [w \in WorkerIds |-> FALSE]
    /\ tcp_task = "none"
    /\ nym_task = "none"
    /\ producer = [k \in ProducerIds |-> "none"]
    /\ enqueued = 0
    /\ logged = ""
    /\ IsParseCall(call)
    /\ ret = <<>>
    /\ NoRpc

\* One call: the result is one of the outcomes the function can have.
Returns(fn, outcomes) ==
    /\ call.fn = fn
    /\ ret = <<>>
    /\ \E r \in outcomes : ret' = <<r>>
    /\ UNCHANGED <<cfg, pc, server_status, tcp_ingestor_status, nym_ingestor_status,
                   queue_status, channel, loaded, online, workers, worker_handles,
                   popped, wtask, wsignal, tcp_task, nym_task, producer, enqueued,
                   logged, call, rpc_vars>>

CallSkipBytes ==
    Returns("skip_bytes",
            skip_bytes(call.data, call.pos, call.n, call.error_msg, call.overflow_checks))

CallReadBytes ==
    Returns("read_bytes", read_bytes(call.data, call.pos, call.n, call.error_msg))

CallReadU64 == Returns("read_u64", read_u64(call.data, call.pos, call.error_msg))

CallReadU32 == Returns("read_u32", read_u32(call.data, call.pos, call.error_msg))

CallReadI32 == Returns("read_i32", read_i32(call.data, call.pos, call.error_msg))

CallReadBool == Returns("read_bool", read_bool(call.data, call.pos, call.error_msg))

CallReadZcashScriptI64 ==
    Returns("read_zcash_script_i64", read_zcash_script_i64(call.data, call.pos))

ParseNext ==
    \/ CallSkipBytes
    \/ CallReadBytes
    \/ CallReadU64
    \/ CallReadU32
    \/ CallReadI32
    \/ CallReadBool
    \/ CallReadZcashScriptI64

ParseSpec == ParseInit /\ [][ParseNext]_vars

(***************************************************************************)
(* blockcache/utils.rs: display_txids_to_server.  A String is the sequence *)
(* of its characters.                                                      *)
(***************************************************************************)
\* The value of one digit in radix 16, -1 for a character that is not one.
HexDigitValue(c) ==
    CASE c = "0" -> 0 [] c = "1" -> 1 [] c = "2" -> 2 [] c = "3" -> 3
      [] c = "4" -> 4 [] c = "5" -> 5 [] c = "6" -> 6 [] c = "7" -> 7
      [] c = "8" -> 8 [] c = "9" -> 9
      [] c \in {"a", "A"} -> 10 [] c \in {"b", "B"} -> 11 [] c \in {"c", "C"} -> 12
      [] c \in {"d", "D"} -> 13 [] c \in {"e", "E"} -> 14 [] c \in {"f", "F"} -> 15
      [] OTHER -> -1

\* u8::from_str_radix(hex_pair, 16) on a chunk of one or two characters: an
\* optional leading "+", then digits; -1 stands for Err.
from_str_radix(hex_pair) ==
    LET digits == IF Len(hex_pair) > 1 /\ hex_pair[1] = "+" THEN Tail(hex_pair)
                  ELSE hex_pair
    IN  IF digits = <<>> \/ \E i \in 1 .. Len(digits) : HexDigitValue(digits[i]) < 0
        THEN -1
        ELSE IF Len(digits) = 1 THEN HexDigitValue(digits[1])
        ELSE 16 * HexDigitValue(digits[1]) + HexDigitValue(digits[2])

\* txid.as_bytes().chunks(2): chunks of two, the last one shorter when the
\* length is odd.
Chunks(txid) ==
    [i \in 1 .. ((Len(txid) + 1) \div 2) |->
        SubSeq(txid, 2 * i - 1, IF 2 * i <= Len(txid) THEN 2 * i ELSE Len(txid))]

Reverse(seq) == [i \in 1 .. Len(seq) |-> seq[Len(seq) - i + 1]]

\* Variant that keeps the decoded bytes in display order (C20 fails for it).
DecodeTxidInOrder(txid) ==
    [i \in 1 .. Len(Chunks(txid)) |-> from_str_radix(Chunks(txid)[i])]

\* .chunks(2).map(|chunk| from_str_radix(..).unwrap()).rev().collect()
DecodeTxid(txid) ==
    Reverse([i \in 1 .. Len(Chunks(txid)) |-> from_str_radix(Chunks(txid)[i])])

\* The unwrap panics on the first chunk that does not parse.
display_txids_to_server(txids) ==
    IF \E i \in 1 .. Len(txids) : \E j \in 1 .. Len(DecodeTxid(txids[i])) :
           DecodeTxid(txids[i])[j] < 0
    THEN [kind |-> "panic", value |-> <<>>]
    ELSE [kind |-> "Ok", value |-> [i \in 1 .. Len(txids) |-> DecodeTxid(txids[i])]]

TxidChars == {"a", "F"}

\* The number of pairs in the first i strings of a list with these lengths.
RECURSIVE PairsBefore(_, _)
PairsBefore(lens, i) == IF i = 0 THEN 0 ELSE PairsBefore(lens, i - 1) + lens[i]

\* A run of characters cut into strings of the given numbers of pairs.
SplitByPairs(chars, lens) ==
    [i \in 1 .. Len(lens) |->
        SubSeq(chars, 2 * PairsBefore(lens, i - 1) + 1, 2 * PairsBefore(lens, i))]

\* The 32-byte txid 00112233445566778899aabbccddeeff00112233445566778899aabbccddeeff,
ExampleHalf == <<"0", "0", "1", "1", "2", "2", "3", "3", "4", "4", "5", "5", "6", "6", "7", "7", "8", "8", "9", "9", "a", "a", "b", "b", "c", "c", "d", "d", "e", "e", "f", "f">>

ExampleTxid == ExampleHalf \o ExampleHalf

\* and strings that are no even-length hex strings.
OtherTxids == {<<ExampleTxid>>, <<<<"a">>>>, <<<<"a", "F", "0">>>>, <<<<"g", "0">>>>,
               <<<<"+", "f">>>>}

IsTxidCall(c) ==
    \/ \E n \in 0 .. MaxTxids : \E lens \in [1 .. n -> 0 .. MaxHexPairs] :
          /\ PairsBefore(lens, n) <= MaxHexPairs
          /\ \E chars \in [1 .. 2 * PairsBefore(lens, n) -> TxidChars] :
                c = [fn |-> "display_txids_to_server",
                     txids |-> SplitByPairs(chars, lens)]
    \/ \E txids \in OtherTxids : c = [fn |-> "display_txids_to_server", txids |-> txids]

TxidInit ==
    /\ cfg = FnConfig
    /\ pc = "new"
    /\ server_status = Offline
    /\ tcp_ingestor_status = Offline
    /\ nym_ingestor_status = Offline
    /\ queue_status = [q \in Queues |-> 0]
    /\ channel = [q \in Queues |-> 0]
    /\ loaded = 0
    /\ online = TRUE
    /\ workers = <<>>
    /\ worker_handles = <<>>
    /\ popped = 0
    /\ wtask = [w \in WorkerIds |-> "none"]
    /\ wsignal = [w \in WorkerIds |-> FALSE]
    /\ tcp_task = "none"
    /\ nym_task = "none"
    /\ producer = [k \in ProducerIds |-> "none"]
    /\ enqueued = 0
    /\ logged = ""
    /\ IsTxidCall(call)
    /\ ret = <<>>
    /\ NoRpc

CallDisplayTxidsToServer ==
    Returns("display_txids_to_server", {display_txids_to_server(call.txids)})

TxidNext == CallDisplayTxidsToServer

TxidSpec == TxidInit /\ [][TxidNext]_vars

(***************************************************************************)
(* The lightwallet service (zingo-rpc/src/rpc/service.rs): one RPC of the  *)
(* CompactTxStreamer implementation at a time.  The handler runs as one    *)
(* step; a streaming RPC leaves behind the task it spawned, which feeds a  *)
(* bounded channel whose receiving end is the stream handed to the client. *)
(* The validator (JsonRpcConnector, get_block_from_node) answers each call *)
(* with any of the answers of its interface (design document 4.3).         *)
(***************************************************************************)
\* A 64-bit height of a request, held as its two 32-bit halves: the value is
\* hi * 2^32 + lo.
U64(hi, lo) == [hi |-> hi, lo |-> lo]
\* `s.height as u32`: the low 32 bits
AsU32(height) == height.lo

RequestHeights == {U64(hi, lo) : hi \in 0 .. 1, lo \in 0 .. MaxHeight}
\* Option<BlockId>: <<>> is None, <<height>> is Some
OptionalHeights == {<<>>} \cup {<<h>> : h \in RequestHeights}
\* A range longer than the channel is deep.
LongRangeEnd == U64(0, ChannelCapacity + 2)

\* tonic::Status::<code>(message)
Status(code, message) == [kind |-> "Err", code |-> code, message |-> message]
Response(value) == [kind |-> "Ok", value |-> value]
Unwound == [kind |-> "Panic"]

\* One call of the validator as the log keeps it: the method, its arguments,
\* the verbosity where it has one, and the answer.
ValidatorCall(method, arg, verbosity, answer) ==
    [method |-> method, arg |-> arg, verbosity |-> verbosity, answer |-> answer]

\* JsonRpcConnectorError::to_grpc_status (design document 7)
ValidatorErrors == {"bad_params", "not_found", "other", "transport"}
to_grpc_status(e) ==
    CASE e = "bad_params" -> Status("InvalidArgument", e)
      [] e = "not_found" -> Status("NotFound", e)
      [] OTHER -> Status("Internal", e)

\* Heights a GetTransactionResponse::Object carries: -1 for a transaction that
\* is not in a block of the best chain.
ObjectHeights == {-1, 0, MaxHeight}
RawBytes == {<<1, 2>>}
\* get_raw_transaction(txid_hex, verbosity) -> Raw(bytes) | Object{hex, height, ..}
RawTransactionAnswers ==
    [kind : {"Object"}, hex : RawBytes, height : ObjectHeights]
    \cup [kind : {"Raw"}, hex : RawBytes]
    \cup [kind : {"Err"}, error : ValidatorErrors]
\* The answers drawn while a stream is produced.
StreamedAnswers ==
    {a \in RawTransactionAnswers : a.kind = "Err" => a.error \in {"not_found", "transport"}}

\* tokio::sync::mpsc::channel(32), tokio::spawn(..), the stream returned
OpenStream(items) ==
    /\ stream_task' = "next"
    /\ iter' = items
    /\ channel_rx' = "open"
    /\ ret' = <<Response("stream")>>
    /\ UNCHANGED <<item, channel_tx, sent, delivered, calls_at_drop>>

\* The handler fails before anything is spawned.
Fail(status) ==
    /\ ret' = <<status>>
    /\ UNCHANGED <<stream_task, iter, item, channel_tx, channel_rx, sent, delivered,
                   calls_at_drop>>

(***************************************************************************)
(* get_block_range                                                         *)
(***************************************************************************)
\* if start > end { (start, end) = (end, start) }
Ordered(start, end) == IF start > end THEN <<end, start>> ELSE <<start, end>>

\* The heights `for height in start..end` goes through, in order.
RangeIter(start, end) == [i \in 1 .. (end - start) |-> start + (i - 1)]

\* Variant that compares and swaps the 64-bit heights and truncates afterwards
\* (C38 fails for it).
GetBlockRangeComparingFirst ==
    /\ call.fn = "get_block_range"
    /\ ret = <<>>
    /\ IF call.start = <<>>
          THEN Fail(Status("InvalidArgument", "Start block not specified"))
          ELSE IF call.end = <<>>
          THEN Fail(Status("InvalidArgument", "End block not specified"))
          ELSE LET start == call.start[1]
                   end == call.end[1]
                   swap == \/ start.hi > end.hi
                           \/ start.hi = end.hi /\ start.lo > end.lo
               IN  IF swap THEN OpenStream(RangeIter(AsU32(end), AsU32(start)))
                   ELSE OpenStream(RangeIter(AsU32(start), AsU32(end)))
    /\ UNCHANGED <<director_vars, call, validator_calls>>

GetBlockRange ==
    /\ call.fn = "get_block_range"
    /\ ret = <<>>
    /\ IF call.start = <<>>
          THEN Fail(Status("InvalidArgument", "Start block not specified"))
          ELSE IF call.end = <<>>
          THEN Fail(Status("InvalidArgument", "End block not specified"))
          ELSE LET range == Ordered(AsU32(call.start[1]), AsU32(call.end[1]))
               IN  OpenStream(RangeIter(range[1], range[2]))
    /\ UNCHANGED <<director_vars, call, validator_calls>>

\* get_block_from_node(&zebrad_uri, &height): the compact block or an error.
\* The failures are drawn for the heights up to MaxHeight.
BlockAnswers(height) ==
    IF height <= MaxHeight
    THEN {[kind |-> "Ok"], [kind |-> "Err", error |-> "transport"]}
    ELSE {[kind |-> "Ok"]}

\* Ok(block) or Err(tonic::Status::internal(e.to_string()))
BlockItem(height, answer) ==
    IF answer.kind = "Ok"
    THEN [result |-> "CompactBlock", of |-> height, message |-> ""]
    ELSE [result |-> "Internal", of |-> height, message |-> answer.error]

\* Variant whose loop is left after the item of a failed fetch (C37 fails for
\* it).
BlockRangeFetchEndingOnFailure ==
    /\ call.fn = "get_block_range"
    /\ stream_task = "next"
    /\ iter # <<>>
    /\ \E answer \in BlockAnswers(Head(iter)) :
           /\ item' = <<BlockItem(Head(iter), answer)>>
           /\ validator_calls' =
                  Append(validator_calls,
                         ValidatorCall("get_block_from_node", <<Head(iter)>>, <<>>, answer))
           /\ iter' = IF answer.kind = "Err" THEN <<>> ELSE Tail(iter)
    /\ stream_task' = "send"
    /\ UNCHANGED <<director_vars, call, ret, channel_tx, channel_rx, sent, delivered,
                   calls_at_drop>>

\* One turn of the loop up to the send: the block at the next height is fetched.
BlockRangeFetch ==
    /\ call.fn = "get_block_range"
    /\ stream_task = "next"
    /\ iter # <<>>
    /\ \E answer \in BlockAnswers(Head(iter)) :
           /\ item' = <<BlockItem(Head(iter), answer)>>
           /\ validator_calls' =
                  Append(validator_calls,
                         ValidatorCall("get_block_from_node", <<Head(iter)>>, <<>>, answer))
    /\ iter' = Tail(iter)
    /\ stream_task' = "send"
    /\ UNCHANGED <<director_vars, call, ret, channel_tx, channel_rx, sent, delivered,
                   calls_at_drop>>

(***************************************************************************)
(* The end of each turn of a producer's loop (the same in get_block_range  *)
(* and in get_taddress_txids): Sender::send waits for room in the channel  *)
(* and fails once the receiver is gone; the loop is left on a failed send  *)
(* and when its iterator is exhausted, and the task ends, which drops the  *)
(* sender.                                                                 *)
(***************************************************************************)
ProducerSend ==
    /\ stream_task = "send"
    /\ channel_rx # "dropped"
    /\ Len(channel_tx) < ChannelCapacity
    /\ channel_tx' = Append(channel_tx, item[1])
    /\ sent' = Append(sent, item[1])
    /\ item' = <<>>
    /\ stream_task' = "next"
    /\ UNCHANGED <<director_vars, call, ret, iter, channel_rx, delivered,
                   validator_calls, calls_at_drop>>

\* Variant whose loop goes on after a failed send (C22 fails for it).
ProducerContinue ==
    /\ stream_task = "send"
    /\ channel_rx = "dropped"
    /\ item' = <<>>
    /\ stream_task' = "next"
    /\ UNCHANGED <<director_vars, call, ret, iter, channel_tx, channel_rx, sent,
                   delivered, validator_calls, calls_at_drop>>

\* if channel_tx.send(..).await.is_err() { break; }
ProducerBreak ==
    /\ stream_task = "send"
    /\ channel_rx = "dropped"
    /\ item' = <<>>
    /\ stream_task' = "exited"
    /\ UNCHANGED <<director_vars, call, ret, iter, channel_tx, channel_rx, sent,
                   delivered, validator_calls, calls_at_drop>>

ProducerExit ==
    /\ stream_task = "next"
    /\ iter = <<>>
    /\ stream_task' = "exited"
    /\ UNCHANGED <<director_vars, call, ret, iter, item, channel_tx, channel_rx, sent,
                   delivered, validator_calls, calls_at_drop>>

(***************************************************************************)
(* The consumer of the stream (CompactBlockStream / RawTransactionStream   *)
(* over ReceiverStream): poll_next hands over the oldest item held by the  *)
(* channel, and None once the channel is empty and the sender is gone.     *)
(* Dropping the stream closes the channel and discards what it holds.      *)
(***************************************************************************)
\* Variant that hands over the newest item first (C23 fails for it).
PollNextNewest ==
    /\ channel_rx = "open"
    /\ channel_tx # <<>>
    /\ delivered' = Append(delivered, channel_tx[Len(channel_tx)])
    /\ channel_tx' = SubSeq(channel_tx, 1, Len(channel_tx) - 1)
    /\ UNCHANGED <<director_vars, call, ret, stream_task, iter, item, channel_rx, sent,
                   validator_calls, calls_at_drop>>

PollNextSome ==
    /\ channel_rx = "open"
    /\ channel_tx # <<>>
    /\ delivered' = Append(delivered, Head(channel_tx))
    /\ channel_tx' = Tail(channel_tx)
    /\ UNCHANGED <<director_vars, call, ret, stream_task, iter, item, channel_rx, sent,
                   validator_calls, calls_at_drop>>

PollNextNone ==
    /\ channel_rx = "open"
    /\ channel_tx = <<>>
    /\ stream_task = "exited"
    /\ channel_rx' = "ended"
    /\ UNCHANGED <<director_vars, call, ret, stream_task, iter, item, channel_tx, sent,
                   delivered, validator_calls, calls_at_drop>>

DropStream ==
    /\ channel_rx = "open"
    /\ channel_rx' = "dropped"
    /\ channel_tx' = <<>>
    /\ calls_at_drop' = Len(validator_calls)
    /\ UNCHANGED <<director_vars, call, ret, stream_task, iter, item, sent, delivered,
                   validator_calls>>

(***************************************************************************)
(* get_taddress_txids                                                      *)
(***************************************************************************)
Txids == {"txid1", "txid2"}
TxidLists == UNION {[1 .. n -> Txids] : n \in 0 .. MaxTxids}
\* get_address_txids({addresses, start, end}) -> {transactions: [txid_hex]}
AddressTxidsAnswers ==
    [kind : {"Ok"}, transactions : TxidLists]
    \cup [kind : {"Err"}, error : {"bad_params", "transport"}]

\* block_filter.range.and_then(|r| r.start) and .and_then(|r| r.end)
RangeStart(range) == IF range = <<>> THEN <<>> ELSE range[1].start
RangeEnd(range) == IF range = <<>> THEN <<>> ELSE range[1].end

GetTaddressTxids ==
    /\ call.fn = "get_taddress_txids"
    /\ ret = <<>>
    /\ IF RangeStart(call.range) = <<>>
          THEN /\ Fail(Status("InvalidArgument", "Start block not specified"))
               /\ UNCHANGED validator_calls
          ELSE IF RangeEnd(call.range) = <<>>
          THEN /\ Fail(Status("InvalidArgument", "End block not specified"))
               /\ UNCHANGED validator_calls
          ELSE \E answer \in AddressTxidsAnswers :
                   /\ validator_calls' =
                          <<ValidatorCall("get_address_txids",
                                          <<call.address, AsU32(RangeStart(call.range)[1]),
                                            AsU32(RangeEnd(call.range)[1])>>,
                                          <<>>, answer)>>
                   /\ IF answer.kind = "Err"
                         THEN Fail(to_grpc_status(answer.error))
                         ELSE OpenStream(answer.transactions)
    /\ UNCHANGED <<director_vars, call>>

\* `height as u64` on the height of an Object: sign-extended to 64 bits
HeightAsU64(height) == I64Bytes(height)

\* Variant that forwards a Raw answer as a transaction (C25 fails for it).
RawTransactionItemForwardingRaw(txid, answer) ==
    CASE answer.kind \in {"Object", "Raw"} ->
             [result |-> "RawTransaction", of |-> txid, data |-> answer.hex,
              height |-> <<>>, message |-> ""]
      [] OTHER ->
             [result |-> "Internal", of |-> txid, data |-> <<>>, height |-> <<>>,
              message |-> answer.error]

\* The three arms of the match on the answer of get_raw_transaction.
RawTransactionItem(txid, answer) ==
    CASE answer.kind = "Object" ->
             [result |-> "RawTransaction", of |-> txid, data |-> answer.hex,
              height |-> HeightAsU64(answer.height), message |-> ""]
      [] answer.kind = "Raw" ->
             [result |-> "Internal", of |-> txid, data |-> <<>>, height |-> <<>>,
              message |-> "Received raw transaction type, this should not be impossible."]
      [] OTHER ->
             [result |-> "Internal", of |-> txid, data |-> <<>>, height |-> <<>>,
              message |-> answer.error]

\* One turn of the loop up to the send: the next transaction is fetched.
TaddressTxidsFetch ==
    /\ call.fn = "get_taddress_txids"
    /\ stream_task = "next"
    /\ iter # <<>>
    /\ \E answer \in StreamedAnswers :
           /\ item' = <<RawTransactionItem(Head(iter), answer)>>
           /\ validator_calls' =
                  Append(validator_calls,
                         ValidatorCall("get_raw_transaction", <<Head(iter)>>, <<1>>, answer))
    /\ iter' = Tail(iter)
    /\ stream_task' = "send"
    /\ UNCHANGED <<director_vars, call, ret, channel_tx, channel_rx, sent, delivered,
                   calls_at_drop>>

(***************************************************************************)
(* get_transaction                                                         *)
(***************************************************************************)
HEX_CHARS_LOWER == <<"0", "1", "2", "3", "4", "5", "6", "7", "8", "9",
                     "a", "b", "c", "d", "e", "f">>
\* hex::encode: two lower-case digits a byte, the high half first
hex_encode(bytes) ==
    [i \in 1 .. 2 * Len(bytes) |->
        IF i % 2 = 1 THEN HEX_CHARS_LOWER[(bytes[(i + 1) \div 2] \div 16) + 1]
        ELSE HEX_CHARS_LOWER[(bytes[i \div 2] % 16) + 1]]

\* hash.iter().rev().copied().collect::<Vec<u8>>()
reversed_hash(hash) == Reverse(hash)

\* height.try_into().unwrap(): the height as a u64, a panic when it has none
HeightTryIntoU64(height) == IF height < 0 THEN <<>> ELSE <<I64Bytes(height)>>

\* What get_transaction makes of the validator's answer.
TransactionResult(answer) ==
    CASE answer.kind = "Err" -> to_grpc_status(answer.error)
      [] answer.kind = "Raw" -> Status("NotFound", "Transaction not received")
      [] OTHER ->
             IF HeightTryIntoU64(answer.height) = <<>> THEN Unwound
             ELSE Response([data |-> answer.hex,
                            height |-> HeightTryIntoU64(answer.height)[1]])

GetTransaction ==
    /\ call.fn = "get_transaction"
    /\ ret = <<>>
    /\ IF Len(call.hash) = HashLength
          THEN \E answer \in RawTransactionAnswers :
                   /\ validator_calls' =
                          <<ValidatorCall("get_raw_transaction",
                                          <<hex_encode(reversed_hash(call.hash))>>,
                                          <<1>>, answer)>>
                   /\ ret' = <<TransactionResult(answer)>>
          ELSE /\ ret' = <<Status("InvalidArgument", "Transaction hash incorrect")>>
               /\ UNCHANGED validator_calls
    /\ UNCHANGED <<director_vars, call, stream_task, iter, item, channel_tx, channel_rx,
                   sent, delivered, calls_at_drop>>

(***************************************************************************)
(* get_tree_state                                                          *)
(***************************************************************************)
DecimalDigits == <<"0", "1", "2", "3", "4", "5", "6", "7", "8", "9">>
\* u64::to_string
RECURSIVE to_string(_)
to_string(n) ==
    IF n < 10 THEN <<DecimalDigits[n + 1]>>
    ELSE to_string(n \div 10) \o <<DecimalDigits[(n % 10) + 1]>>

\* Variant that goes by the hash whenever one is given (C26 fails for it).
hash_or_height_by_hash(block_id) ==
    IF block_id.hash = <<>> THEN to_string(block_id.height)
    ELSE hex_encode(block_id.hash)

\* if block_id.height != 0 { height.to_string() } else { hex::encode(hash) }
hash_or_height(block_id) ==
    IF block_id.height # 0 THEN to_string(block_id.height)
    ELSE hex_encode(block_id.hash)

\* get_blockchain_info() -> {chain, ..}
BlockchainInfoAnswers ==
    [kind : {"Ok"}, chain : {"main", "test"}]
    \cup [kind : {"Err"}, error : ValidatorErrors]
\* get_treestate(hash_or_height) -> {height, hash, time, sapling, orchard}
TreestateAnswers ==
    [kind : {"Ok"}, height : {0, MaxHeight}, hash : {"00ab"}, time : {1},
     sapling : {"s"}, orchard : {"o"}]
    \cup [kind : {"Err"}, error : ValidatorErrors]

TreeState(chain, treestate) ==
    [network |-> chain, height |-> HeightAsU64(treestate.height),
     hash |-> treestate.hash, time |-> treestate.time,
     sapling_tree |-> treestate.sapling, orchard_tree |-> treestate.orchard]

GetTreeState ==
    /\ call.fn = "get_tree_state"
    /\ ret = <<>>
    /\ \E info \in BlockchainInfoAnswers :
           IF info.kind = "Err"
           THEN /\ validator_calls' =
                       <<ValidatorCall("get_blockchain_info", <<>>, <<>>, info)>>
                /\ ret' = <<to_grpc_status(info.error)>>
           ELSE \E treestate \in TreestateAnswers :
                    /\ validator_calls' =
                           <<ValidatorCall("get_blockchain_info", <<>>, <<>>, info),
                             ValidatorCall("get_treestate",
                                           <<hash_or_height(call.block_id)>>, <<>>,
                                           treestate)>>
                    /\ ret' = <<IF treestate.kind = "Err"
                                THEN to_grpc_status(treestate.error)
                                ELSE Response(TreeState(info.chain, treestate))>>
    /\ UNCHANGED <<director_vars, call, stream_task, iter, item, channel_tx, channel_rx,
                   sent, delivered, calls_at_drop>>

(***************************************************************************)
(* The RPCs that are not implemented.                                      *)
(***************************************************************************)
UnimplementedRpcs ==
    {"get_block", "get_block_nullifiers", "get_block_range_nullifiers",
     "get_taddress_balance", "get_taddress_balance_stream", "get_mempool_tx",
     "get_latest_tree_state", "get_subtree_roots", "get_address_utxos",
     "get_address_utxos_stream", "ping"}

\* Variant that reports the missing RPC as an internal error (C27 fails for it).
InternalError(method) == Status("Internal", method)

\* Err(tonic::Status::unimplemented("<method> not yet implemented. If you require
\* this RPC please open an issue or PR at the Zingo-Proxy github (..)."))
Unimplemented(method) == Status("Unimplemented", method)

CallUnimplemented ==
    /\ call.fn \in UnimplementedRpcs
    /\ ret = <<>>
    /\ ret' = <<Unimplemented(call.fn)>>
    /\ UNCHANGED <<director_vars, call, rpc_vars>>

(***************************************************************************)
(* One RPC: every request of the bounded sets, every answer of the         *)
(* validator, every schedule of the producer and the consumer.  A call of  *)
(* the validator returns, and a task that can run does run.                *)
(***************************************************************************)
\* Hashes of n bytes that differ in their first and last bytes.
Hash(n, first, last) ==
    [i \in 1 .. n |-> IF i = 1 THEN first ELSE IF i = n THEN last ELSE i]
HashLengths == {0, HashLength \div 2, HashLength - 1, HashLength, HashLength + 1}
HashBytes == {0, 171, 255}
TreeStateHeights == {0, 1, 9, 10, 12, 105}
TreeStateHashes == {<<>>, <<0, 171>>, <<255>>}
TxidRanges ==
    {<<>>} \cup
    {<<[start |-> s, end |-> e]>> :
        s \in {<<>>, <<U64(0, 1)>>}, e \in {<<>>, <<U64(1, MaxHeight)>>}}

IsRpcCall(c) ==
    \/ \E start \in OptionalHeights, end \in OptionalHeights :
           c = [fn |-> "get_block_range", start |-> start, end |-> end]
    \/ c = [fn |-> "get_block_range", start |-> <<U64(0, 0)>>, end |-> <<LongRangeEnd>>]
    \/ \E range \in TxidRanges :
           c = [fn |-> "get_taddress_txids", address |-> "t1", range |-> range]
    \/ \E n \in HashLengths, first \in HashBytes, last \in HashBytes :
           c = [fn |-> "get_transaction", hash |-> Hash(n, first, last)]
    \/ \E height \in TreeStateHeights, hash \in TreeStateHashes :
           c = [fn |-> "get_tree_state", block_id |-> [height |-> height, hash |-> hash]]
    \/ \E fn \in UnimplementedRpcs, request \in {"empty", "other"} :
           c = [fn |-> fn, request |-> request]

RpcInit ==
    /\ cfg = FnConfig
    /\ pc = "new"
    /\ server_status = Offline
    /\ tcp_ingestor_status = Offline
    /\ nym_ingestor_status = Offline
    /\ queue_status = [q \in Queues |-> 0]
    /\ channel = [q \in Queues |-> 0]
    /\ loaded = 0
    /\ online = TRUE
    /\ workers = <<>>
    /\ worker_handles = <<>>
    /\ popped = 0
    /\ wtask = [w \in WorkerIds |-> "none"]
    /\ wsignal = [w \in WorkerIds |-> FALSE]
    /\ tcp_task = "none"
    /\ nym_task = "none"
    /\ producer = [k \in ProducerIds |-> "none"]
    /\ enqueued = 0
    /\ logged = ""
    /\ IsRpcCall(call)
    /\ ret = <<>>
    /\ NoRpc

Handler ==
    \/ GetBlockRange
    \/ GetTaddressTxids
    \/ GetTransaction
    \/ GetTreeState
    \/ CallUnimplemented

Producer ==
    \/ BlockRangeFetch
    \/ TaddressTxidsFetch
    \/ ProducerSend
    \/ ProducerBreak
    \/ ProducerExit

Consumer ==
    \/ PollNextSome
    \/ PollNextNone
    \/ DropStream

RpcNext == Handler \/ Producer \/ Consumer

RpcSpec == RpcInit /\ [][RpcNext]_vars /\ WF_vars(Producer)

(***************************************************************************)
(*                              Properties                                 *)
(***************************************************************************)
TypeOK ==
    /\ cfg \in Configs
    /\ pc \in {"new", "config_error", "spawned", "loop", "elseif", "pop_wait",
               "load_request", "store_request", "load_nym_response",
               "store_nym_response", "check", "shutdown_tcp", "join_tcp",
               "shutdown_nym", "join_nym", "shutdown_workers", "join_workers",
               "store_offline", "done", "panicked"}
    /\ server_status \in 0 .. Offline
    /\ online \in BOOLEAN
    /\ Range(workers) \subseteq WorkerIds
    /\ Range(worker_handles) \subseteq WorkerIds
    /\ popped \in WorkerIds \cup {0}

\* Vec::remove in the scale-down branch never panics.
NoPanic == pc # "panicked"

\* The pool's workers and the Director's handles are the same tasks, except for
\* the worker handed to pop_worker.
HandlesMatchPool ==
    pc \notin {"new", "spawned", "config_error"} =>
        worker_handles = SelectSeq(workers, LAMBDA w : w # popped)

Running == pc \notin {"new", "config_error", "spawned"}

\* C1: for the request queue and the nym response queue the length counter
\* stays within 0 .. capacity in every reachable state (a wrapped counter is a
\* length above every capacity).
C1_QueueLengthWithinCapacity ==
    \A q \in Queues :
        /\ ~Wrapped(queue_status[q])
        /\ queue_status[q] >= 0
        /\ queue_status[q] <= cfg.max_queue_size

\* C2: the length counter of a queue equals the number of items enqueued and not
\* yet dequeued (enqueue and dequeue are single steps here, so every state is
\* quiescent): no increment or decrement is lost.
C2_LengthCountsQueuedItems ==
    \A q \in Queues : queue_status[q] = channel[q]

\* C3: at the end of every iteration of the command loop the worker count lies
\* between idle_size and max_size.
C3_WorkerCountBetweenIdleAndMax ==
    pc = "check" =>
        /\ cfg.idle_worker_pool_size <= Len(workers)
        /\ Len(workers) <= cfg.max_worker_pool_size

\* What remains of C3 when the configuration has idle <= max.
WorkerCountBetweenIdleAndMaxWhenOrdered ==
    (Running /\ cfg.idle_worker_pool_size <= cfg.max_worker_pool_size) =>
        /\ cfg.idle_worker_pool_size <= Len(workers)
        /\ Len(workers) <= cfg.max_worker_pool_size

\* C4: an iteration that finds the request-queue length >= capacity / 4 and the
\* worker count < max_size calls push_worker: the pool and the handle list grow
\* by exactly one, or "WorkerPool at capacity" is logged and both are unchanged.
C4_ScaleUpAddsOneWorker ==
    [][(/\ pc = "loop"
        /\ UsizeGE(queue_status["request"], cfg.max_queue_size \div 4)
        /\ Len(workers) < cfg.max_worker_pool_size
        /\ pc' # pc)
       => /\ pc' = "load_request"
          /\ \/ /\ Len(workers') = Len(workers) + 1
                /\ Len(worker_handles') = Len(worker_handles) + 1
                /\ wtask'[workers'[Len(workers')]] = "ready"
                /\ logged' = ""
             \/ /\ logged' = "WorkerPool at capacity"
                /\ workers' = workers
                /\ worker_handles' = worker_handles]_vars

C4_Witness ==
    /\ pc = "load_request"
    /\ Len(workers) = cfg.idle_worker_pool_size + 1
    /\ Len(worker_handles) = Len(workers)
    /\ UsizeGE(queue_status["request"], cfg.max_queue_size \div 4)
    /\ \A w \in WorkerIds : wtask[w] # "joined"

C6_ScalingScenario ==
    /\ [][(/\ pc = "loop"
           /\ cfg.max_queue_size = 100
           /\ queue_status["request"] = 26
           /\ Len(workers) = cfg.idle_worker_pool_size
           /\ cfg.idle_worker_pool_size < cfg.max_worker_pool_size
           /\ pc' # pc)
          => /\ pc' = "load_request"
             /\ Len(workers') = cfg.idle_worker_pool_size + 1]_vars
    /\ (<>[](queue_status["request"] = 1 /\ online))
          => <>[](Len(workers) = cfg.idle_worker_pool_size)
    /\ [][(/\ queue_status["request"] = 1
           /\ queue_status'["request"] = 1
           /\ cfg.max_queue_size = 100
           /\ Len(workers) = cfg.idle_worker_pool_size)
          => Len(workers') = cfg.idle_worker_pool_size]_vars

C6_Witness ==
    /\ cfg.max_queue_size = 100
    /\ queue_status["request"] = 26
    /\ channel["request"] = 26
    /\ pc = "load_request"
    /\ Len(workers) = cfg.idle_worker_pool_size + 1
    /\ \A w \in WorkerIds : wtask[w] \in {"none", "ready"}

\* C7 as claimed: check_for_shutdown() is true exactly when the server state
\* is >= Draining (3) or the online flag is false.
C7_CheckForShutdownFromDraining ==
    (call.fn = "check_for_shutdown" /\ ret # <<>>) =>
        (ret[1] <=> (call.status >= 3 \/ ~call.online))

\* C7 as amended: check_for_shutdown() is true exactly when the server state
\* is >= ShuttingDown (4) or the online flag is false.
C7_CheckForShutdownFromShuttingDown ==
    (call.fn = "check_for_shutdown" /\ ret # <<>>) =>
        (ret[1] <=> (call.status >= 4 \/ ~call.online))

C7_Witness ==
    /\ call.fn = "check_for_shutdown"
    /\ call.status = 3
    /\ call.online
    /\ ret = <<FALSE>>

ShutdownPcs ==
    {"shutdown_tcp", "join_tcp", "shutdown_nym", "join_nym", "shutdown_workers",
     "join_workers", "store_offline"}

ComponentsJoined ==
    /\ cfg.tcp_active => tcp_task = "joined"
    /\ cfg.nym_active => nym_task = "joined"
    /\ \A w \in WorkerIds : wtask[w] \in {"none", "joined"}
    /\ \A i \in 1 .. Len(worker_handles) : wtask[worker_handles[i]] = "joined"

\* C8: on detecting shutdown the Director stores ShuttingDown (4), which stays
\* the server state while it joins the launched TCP ingestor, the launched nym
\* ingestor and all workers; Offline (5) is stored only once all of them are
\* joined; then the task has returned: no further step of the Director, no
\* change of the pool or of the handle list.
C8_ShutdownSequence ==
    /\ [](pc \in ShutdownPcs => server_status = 4)
    /\ [](pc = "done" => (server_status = 5 /\ ComponentsJoined))
    /\ [][(pc = "check" /\ pc' # pc /\ pc' # "loop")
          => (pc' = "shutdown_tcp" /\ server_status' = 4)]_vars
    /\ [][(server_status' = 5 /\ server_status # 5)
          => (ComponentsJoined /\ pc' = "done")]_vars
    /\ [][(tcp_task' = "joined" /\ tcp_task # "joined") => server_status = 4]_vars
    /\ [][(nym_task' = "joined" /\ nym_task # "joined") => server_status = 4]_vars
    /\ [][pc = "done"
          => (pc' = "done" /\ workers' = workers /\ worker_handles' = worker_handles
              /\ server_status' = server_status)]_vars

C8_Witness ==
    /\ pc = "done"
    /\ server_status = 5
    /\ cfg.tcp_active /\ tcp_task = "joined"
    /\ cfg.nym_active /\ nym_task = "joined"
    /\ Len(worker_handles) = 2
    /\ \A i \in 1 .. Len(worker_handles) : wtask[worker_handles[i]] = "joined"

ShutdownRequested ==
    \/ Running /\ ~online
    \/ server_status = 4

\* C9: once the online flag is false, or Server::shutdown has stored state 4, the
\* serve task eventually returns with the server state Offline (5).
C9_ShutdownRequestLeadsToOffline ==
    ShutdownRequested ~> (pc = "done" /\ server_status = 5)

\* The part of C9 that rests on the online flag alone.
OnlineFalseLeadsToOffline ==
    (Running /\ ~online) ~> (pc = "done" /\ server_status = 5)

\* C10: after the serve task has returned no task spawned by the server is left
\* unjoined: ingestors, workers (retired ones included) and the producers of the
\* streaming RPCs.
C10_NoTaskLeftDetached ==
    pc = "done" =>
        /\ tcp_task \in {"none", "joined"}
        /\ nym_task \in {"none", "joined"}
        /\ \A w \in WorkerIds : wtask[w] \in {"none", "joined"}
        /\ \A k \in ProducerIds : producer[k] \in {"none", "joined"}

\* The part of C10 that the Director's own joins give.
IngestorsAndWorkersJoinedAtReturn ==
    pc = "done" =>
        /\ tcp_task \in {"none", "joined"}
        /\ nym_task \in {"none", "joined"}
        /\ \A w \in WorkerIds : wtask[w] \in {"none", "joined"}

\* C11: the lifecycle state in the server status slot never decreases from one
\* write to the next, except Working (2) -> Ready (1); the value ServerStatus::new
\* gives the slot and the writes of Server::spawn, Server::serve and
\* Server::shutdown are all included.
C11_ServerStatusNeverDecreases ==
    [][\/ server_status' >= server_status
       \/ server_status = 2 /\ server_status' = 1]_vars

\* The same from the write of Server::spawn on: still broken, by serve's write
\* of Ready over the ShuttingDown that Server::shutdown stored.
ServerStatusNeverDecreasesAfterSpawn ==
    [][pc # "new" => server_status' >= server_status]_vars

\* The only decreasing writes are those two.
ServerStatusDecreasesOnlyAtSpawnAndServeStart ==
    [][server_status' < server_status
       => \/ pc = "new" /\ server_status = 5 /\ server_status' = 0
          \/ pc = "spawned" /\ server_status = 4 /\ server_status' = 1]_vars

\* C12: the Director, once serving, writes the server status slot only: no step
\* of Server::serve changes the TCP-ingestor slot, the nym-ingestor slot or a
\* queue-length slot.
C12_DirectorWritesOnlyServerStatus ==
    [][(Running /\ pc' # pc)
       => /\ tcp_ingestor_status' = tcp_ingestor_status
          /\ nym_ingestor_status' = nym_ingestor_status
          /\ queue_status' = queue_status]_vars

\* C13: Server::spawn returns ServerConfigError, with no ingestor and no worker
\* launched, when neither ingestor is active, when TCP is active without a listen
\* address, or when nym is active without a conf path; for every other
\* configuration it builds the server.
C13_SpawnConfigValidation ==
    /\ [][(pc = "new" /\ pc' # pc)
          => IF \/ ~cfg.tcp_active /\ ~cfg.nym_active
                \/ cfg.tcp_active /\ ~cfg.tcp_ingestor_listen_addr
                \/ cfg.nym_active /\ ~cfg.nym_conf_path
             THEN /\ pc' = "config_error"
                  /\ tcp_task' = "none" /\ nym_task' = "none"
                  /\ workers' = <<>>
                  /\ \A w \in WorkerIds : wtask'[w] = "none"
                  /\ server_status' = server_status
             ELSE /\ pc' = "spawned"
                  /\ (tcp_task' = "spawned") <=> cfg.tcp_active
                  /\ (nym_task' = "spawned") <=> cfg.nym_active
                  /\ Len(workers') = cfg.idle_worker_pool_size]_vars
    /\ [][pc = "config_error" => UNCHANGED vars]_vars

C13_Witness ==
    /\ pc = "config_error"
    /\ cfg.tcp_active /\ cfg.tcp_ingestor_listen_addr
    /\ cfg.nym_active /\ ~cfg.nym_conf_path
    /\ tcp_task = "none" /\ nym_task = "none" /\ workers = <<>>

\* C14: Server::spawn never builds a worker pool whose idle size exceeds its max
\* size: a configuration with idle_worker_pool_size > max_worker_pool_size is
\* rejected.
C14_IdleAboveMaxRejected ==
    pc = "spawned" => cfg.idle_worker_pool_size <= cfg.max_worker_pool_size

\* The integer a 64-bit value stands for, where it is small enough to be
\* written down: below 2^24, or -1.
I64Value(b) ==
    IF \A i \in 4 .. 8 : b[i] = 0 THEN <<b[1] + 256 * b[2] + 65536 * b[3]>>
    ELSE IF \A i \in 1 .. 8 : b[i] = 255 THEN <<-1>>
    ELSE <<>>

Returned(fn) == call.fn = fn /\ ret # <<>>

\* C15: skip_bytes returns InvalidData(msg) and leaves the position where it
\* was when fewer than n bytes remain; otherwise it returns Ok with the position
\* at exactly p + n, not beyond the end of the slice and not below p, also for n
\* close to the machine-word limit.
C15_SkipBytesAdvancesOrFails ==
    Returned("skip_bytes") =>
        IF Wrapped(call.n) \/ call.n > Len(call.data) - call.pos
        THEN /\ ret[1].kind = "InvalidData"
             /\ ret[1].msg = call.error_msg
             /\ ret[1].pos = call.pos
        ELSE /\ ret[1].kind = "Ok"
             /\ ret[1].pos = call.pos + call.n
             /\ ret[1].pos <= Len(call.data)
             /\ ret[1].pos >= call.pos

\* What remains of C15 for the counts whose sum with the position fits the
\* machine word.
SkipBytesAdvancesOrFailsWithoutOverflow ==
    (Returned("skip_bytes") /\ ~U64AddOverflows(call.pos, call.n)) =>
        IF Wrapped(call.n) \/ call.n > Len(call.data) - call.pos
        THEN ret[1] = InvalidData(call.error_msg, call.pos)
        ELSE ret[1] = Ok(<<>>, call.pos + call.n)

\* C16: no byte reader panics, whatever the slice and the position: each
\* returns Ok or a ParseError, and every failure is InvalidData with the message
\* supplied to the reader, never Io.
C16_ReadersNeverPanic ==
    (call.fn \in ParseFns \cup {"skip_bytes", "read_bytes"} /\ ret # <<>>) =>
        /\ ret[1].kind \in {"Ok", "InvalidData"}
        /\ ret[1].kind = "InvalidData" =>
              ret[1].msg \in {call.error_msg, "Error reading i64 script hash",
                              "Error reading first byte in i64 script hash"}

\* The readers that take neither a count nor an addition do keep C16.
FixedSizeReadersNeverPanic ==
    (call.fn \in ParseFns /\ ret # <<>>) => ret[1].kind \in {"Ok", "InvalidData"}

\* C17: read_bool returns false for the byte 0x00, true for 0x01, and
\* InvalidData(msg) for every other byte and for an exhausted cursor.
C17_ReadBool ==
    Returned("read_bool") =>
        IF call.pos >= Len(call.data)
        THEN ret[1].kind = "InvalidData" /\ ret[1].msg = call.error_msg
        ELSE IF call.data[call.pos + 1] = 0
        THEN ret[1].kind = "Ok" /\ ret[1].value = <<FALSE>>
        ELSE IF call.data[call.pos + 1] = 1
        THEN ret[1].kind = "Ok" /\ ret[1].value = <<TRUE>>
        ELSE ret[1].kind = "InvalidData" /\ ret[1].msg = call.error_msg

C17_Witness ==
    /\ Returned("read_bool")
    /\ call.pos < Len(call.data)
    /\ call.data[call.pos + 1] = 1
    /\ ret[1].kind = "Ok"
    /\ ret[1].value = <<TRUE>>
    /\ ret[1].pos = call.pos + 1

\* The call is read_zcash_script_i64 on a first byte that is a length, with
\* that many bytes behind it.
LengthPrefixed ==
    /\ Returned("read_zcash_script_i64")
    /\ call.pos < Len(call.data)
    /\ call.data[call.pos + 1] \notin {0, 79} \cup (81 .. 96)
    /\ Len(call.data) - (call.pos + 1) >= call.data[call.pos + 1]

Payload == SubSeq(call.data, call.pos + 2, call.pos + 1 + call.data[call.pos + 1])

\* C18 as claimed: a first byte other than 0x00, 0x4f and 0x51 ..= 0x60 is a
\* length k, and the next k bytes are read as a big-endian unsigned integer
\* (first payload byte most significant), reinterpreted as signed.
C18_ScriptNumberBigEndian ==
    (LengthPrefixed /\ Len(Payload) <= 8) =>
        /\ ret[1].kind = "Ok"
        /\ ret[1].value =
              [i \in 1 .. 8 |->
                  IF i <= Len(Payload) THEN Payload[Len(Payload) - i + 1] ELSE 0]

\* C18 as amended: the next k bytes are read as a little-endian unsigned integer
\* (first payload byte least significant; what exceeds 64 bits is dropped),
\* reinterpreted as signed.
C18_ScriptNumberLittleEndian ==
    LengthPrefixed =>
        /\ ret[1].kind = "Ok"
        /\ ret[1].value = [i \in 1 .. 8 |-> IF i <= Len(Payload) THEN Payload[i] ELSE 0]

C18_Witness ==
    /\ Returned("read_zcash_script_i64")
    /\ call.pos + 3 <= Len(call.data)
    /\ call.data[call.pos + 1] = 2
    /\ call.data[call.pos + 2] # call.data[call.pos + 3]
    /\ ret[1].kind = "Ok"
    /\ ret[1].value[1] = call.data[call.pos + 2]
    /\ ret[1].value[2] = call.data[call.pos + 3]

\* C19: read_zcash_script_i64 maps the first byte 0x4f to -1, 0x00 to 0, a byte b
\* in 0x51 ..= 0x60 to b - 0x50, and the bytes 0x02 0x34 0x12 to 4660.
C19_ScriptSmallIntegers ==
    (Returned("read_zcash_script_i64") /\ call.pos < Len(call.data)) =>
        LET b == call.data[call.pos + 1] IN
        /\ b = 79 => (ret[1].kind = "Ok" /\ I64Value(ret[1].value) = <<-1>>)
        /\ b = 0 => (ret[1].kind = "Ok" /\ I64Value(ret[1].value) = <<0>>)
        /\ (81 <= b /\ b <= 96) =>
              (ret[1].kind = "Ok" /\ I64Value(ret[1].value) = <<b - 80>>)
        /\ (call.data = <<2, 52, 18>> /\ call.pos = 0) =>
              (ret[1].kind = "Ok" /\ I64Value(ret[1].value) = <<4660>>)

C19_Witness ==
    /\ Returned("read_zcash_script_i64")
    /\ call.pos < Len(call.data)
    /\ call.data[call.pos + 1] = 96
    /\ ret[1].kind = "Ok"
    /\ I64Value(ret[1].value) = <<16>>
    /\ ret[1].pos = call.pos + 1

\* Hex encoding and decoding as the claim uses them: sixteen digits, written in
\* lower case.
HexDigits == <<"0", "1", "2", "3", "4", "5", "6", "7", "8", "9",
               "a", "b", "c", "d", "e", "f">>

LowerCase(c) ==
    CASE c = "A" -> "a" [] c = "B" -> "b" [] c = "C" -> "c" [] c = "D" -> "d"
      [] c = "E" -> "e" [] c = "F" -> "f" [] OTHER -> c

IsHexString(str) ==
    /\ Len(str) % 2 = 0
    /\ \A i \in 1 .. Len(str) : \E v \in 1 .. 16 : HexDigits[v] = LowerCase(str[i])

DigitOf(c) == (CHOOSE v \in 1 .. 16 : HexDigits[v] = LowerCase(c)) - 1

\* The bytes of a hex string, two digits at a time, in the order written.
HexDecode(str) ==
    [i \in 1 .. (Len(str) \div 2) |-> 16 * DigitOf(str[2 * i - 1]) + DigitOf(str[2 * i])]

RECURSIVE HexEncode(_)
HexEncode(bytes) ==
    IF bytes = <<>> THEN <<>>
    ELSE <<HexDigits[(bytes[1] \div 16) + 1], HexDigits[(bytes[1] % 16) + 1]>>
         \o HexEncode(Tail(bytes))

TxidsReturned ==
    /\ Returned("display_txids_to_server")
    /\ \A i \in 1 .. Len(call.txids) : IsHexString(call.txids[i])

BytesReversed(bytes) == [i \in 1 .. Len(bytes) |-> bytes[Len(bytes) - i + 1]]

\* C20 as claimed: for a list of even-length hex strings the result has as many
\* entries, in the same order; entry i is string i decoded two digits at a time
\* and reversed, so that reversing it and hex-encoding gives back string i; for
\* the 32-byte 0011..eeff0011..eeff the first byte is 0xff and the last 0x00.
C20_TxidsReversedRoundTrip ==
    TxidsReturned =>
        /\ ret[1].kind = "Ok"
        /\ Len(ret[1].value) = Len(call.txids)
        /\ \A i \in 1 .. Len(call.txids) :
              /\ ret[1].value[i] = BytesReversed(HexDecode(call.txids[i]))
              /\ HexEncode(BytesReversed(ret[1].value[i])) = call.txids[i]
        /\ call.txids = <<ExampleTxid>> =>
              (ret[1].value[1][1] = 255 /\ ret[1].value[1][32] = 0)

\* C20 as amended: the same, except that reversing entry i and hex-encoding it
\* gives back string i with its digits in lower case (string i itself when it
\* has no upper-case digit).
C20_TxidsReversedRoundTripLowerCase ==
    TxidsReturned =>
        /\ ret[1].kind = "Ok"
        /\ Len(ret[1].value) = Len(call.txids)
        /\ \A i \in 1 .. Len(call.txids) :
              /\ ret[1].value[i] = BytesReversed(HexDecode(call.txids[i]))
              /\ HexEncode(BytesReversed(ret[1].value[i]))
                    = [j \in 1 .. Len(call.txids[i]) |-> LowerCase(call.txids[i][j])]
        /\ call.txids = <<ExampleTxid>> =>
              (ret[1].value[1][1] = 255 /\ ret[1].value[1][32] = 0)

C20_Witness ==
    /\ Returned("display_txids_to_server")
    /\ call.txids = <<<<"a", "a", "a", "F">>, <<"F", "F">>>>
    /\ ret[1].kind = "Ok"
    /\ ret[1].value = <<<<175, 170>>, <<255>>>>


(***************************************************************************)
(* The lightwallet service.                                                *)
(***************************************************************************)
Handled(fn) == call.fn = fn /\ ret # <<>>

\* Order on 64-bit heights held as two halves.
Less64(a, b) == a.hi < b.hi \/ (a.hi = b.hi /\ a.lo < b.lo)
Min64(a, b) == IF Less64(b, a) THEN b ELSE a
Max64(a, b) == IF Less64(b, a) THEN a ELSE b

\* The heights fetched so far, in order, each as a 64-bit value.
Visited == [i \in 1 .. Len(validator_calls) |-> U64(0, validator_calls[i].arg[1])]

\* The visited heights are lo, lo + 1, .. in this order and stay below hi.
VisitsFrom(lo, hi) ==
    \A i \in 1 .. Len(Visited) :
        /\ Visited[i] = U64(lo.hi, lo.lo + (i - 1))
        /\ Less64(Visited[i], hi)

\* All of lo .. hi - 1 has been visited (a range that spans 2^32 has more
\* heights than any number of fetches counted here).
VisitedAll(lo, hi) ==
    /\ lo.hi = hi.hi
    /\ Len(Visited) = hi.lo - lo.lo

\* One item was made for every visited height, in order: all were sent but the
\* one the producer may still hold.
OneItemPerVisit ==
    /\ Len(sent) + Len(item) = Len(validator_calls)
    /\ \A i \in 1 .. Len(sent) : sent[i].of = validator_calls[i].arg[1]
    /\ item # <<>> => item[1].of = validator_calls[Len(validator_calls)].arg[1]

BlockRangeClaim(lo, hi) ==
    /\ ret[1] = Response("stream")
    /\ VisitsFrom(lo, hi)
    /\ OneItemPerVisit
    /\ stream_task = "exited" => VisitedAll(lo, hi)

\* C21: get_block_range: for every request with both start and end present, with
\* lo = min(start, end) and hi = max(start, end), the producer visits exactly the
\* heights lo, lo + 1, .., hi - 1 in ascending order and sends one stream item per
\* visited height (none when start = end); a request missing start or end yields
\* InvalidArgument and no fetch.  Stated for the streams whose consumer stays.
C21_BlockRangeVisitsRequestedHeights ==
    (Handled("get_block_range") /\ channel_rx # "dropped") =>
        IF call.start = <<>> \/ call.end = <<>>
        THEN /\ ret[1].kind = "Err"
             /\ ret[1].code = "InvalidArgument"
             /\ validator_calls = <<>>
             /\ stream_task = "none"
        ELSE BlockRangeClaim(Min64(call.start[1], call.end[1]),
                             Max64(call.start[1], call.end[1]))

\* The same holds of every request whose heights are below 2^32.
BlockRangeVisitsRequestedHeightsBelow2p32 ==
    (/\ Handled("get_block_range")
     /\ channel_rx # "dropped"
     /\ call.start # <<>> => call.start[1].hi = 0
     /\ call.end # <<>> => call.end[1].hi = 0) =>
        IF call.start = <<>> \/ call.end = <<>>
        THEN /\ ret[1].kind = "Err"
             /\ ret[1].code = "InvalidArgument"
             /\ validator_calls = <<>>
             /\ stream_task = "none"
        ELSE BlockRangeClaim(Min64(call.start[1], call.end[1]),
                             Max64(call.start[1], call.end[1]))


StreamingRpcs == {"get_block_range", "get_taddress_txids"}

\* C22: in get_block_range and get_taddress_txids, once the consumer of the
\* stream has been dropped the producer stops at its next send: it makes at most
\* one further call of the validator after the drop, sends nothing more, and
\* terminates, after which it neither fetches nor sends.
C22_ProducerStopsAfterDrop ==
    /\ [](channel_rx = "dropped" => Len(validator_calls) <= calls_at_drop + 1)
    /\ [][channel_rx = "dropped" => sent' = sent]_vars
    /\ (channel_rx = "dropped") ~> (stream_task = "exited")
    /\ [][stream_task = "exited" =>
            /\ stream_task' = "exited"
            /\ validator_calls' = validator_calls
            /\ sent' = sent]_vars

\* A producer that stopped on the send after the drop, one fetch later, with
\* part of its work left undone.
C22_Witness ==
    /\ call.fn \in StreamingRpcs
    /\ channel_rx = "dropped"
    /\ stream_task = "exited"
    /\ Len(validator_calls) = calls_at_drop + 1
    /\ iter # <<>>

IsPrefix(s, t) == Len(s) <= Len(t) /\ \A i \in 1 .. Len(s) : s[i] = t[i]

\* C23: within one get_block_range or get_taddress_txids stream the items are
\* delivered in exactly the order the producer sent them, none lost and none
\* twice: what was sent is what was delivered followed by what the channel still
\* holds; the producer sent them by ascending height, respectively in the order
\* of its fetches; the stream ends only after the producer has exited and all it
\* sent was delivered; the channel never holds more than 32 items.
C23_StreamDeliversInOrder ==
    call.fn \in StreamingRpcs =>
        /\ IsPrefix(delivered, sent)
        /\ channel_rx # "dropped" => sent = delivered \o channel_tx
        /\ channel_rx = "ended" => (stream_task = "exited" /\ delivered = sent)
        /\ Len(channel_tx) <= ChannelCapacity
        /\ call.fn = "get_block_range" =>
               \A i \in 1 .. Len(sent) - 1 : sent[i + 1].of = sent[i].of + 1
        /\ call.fn = "get_taddress_txids" =>
               \A i \in 1 .. Len(sent) : sent[i].of = validator_calls[i + 1].arg[1]

\* A stream longer than the channel is deep, delivered to its end.
C23_Witness ==
    /\ call.fn = "get_block_range"
    /\ channel_rx = "ended"
    /\ Len(delivered) > ChannelCapacity


\* The one call get_transaction makes: get_raw_transaction with the hex of the
\* hash read from its last byte to its first, and verbosity 1.
TransactionFetchedOnce ==
    /\ Len(validator_calls) = 1
    /\ validator_calls[1].method = "get_raw_transaction"
    /\ validator_calls[1].verbosity = <<1>>
    /\ validator_calls[1].arg =
           <<HexEncode([i \in 1 .. HashLength |-> call.hash[HashLength + 1 - i]])>>

\* The reply to an Object answer: its raw bytes and its height.
TransactionReturned ==
    /\ ret[1].kind = "Ok"
    /\ ret[1].value.data = validator_calls[1].answer.hex
    /\ I64Value(ret[1].value.height) = <<validator_calls[1].answer.height>>

\* C24: get_transaction: a request whose hash is not 32 bytes long yields
\* InvalidArgument and no call of the validator; for 32 bytes exactly one
\* get_raw_transaction call is made, with the hex of the byte-reversed hash and
\* verbosity 1, and an Object answer yields {data: raw bytes, height}.
C24_GetTransaction ==
    Handled("get_transaction") =>
        IF Len(call.hash) # HashLength
        THEN /\ ret[1].kind = "Err"
             /\ ret[1].code = "InvalidArgument"
             /\ validator_calls = <<>>
        ELSE /\ TransactionFetchedOnce
             /\ validator_calls[1].answer.kind = "Object" => TransactionReturned

\* The same holds whenever the Object carries a height of the chain (not -1).
GetTransactionWithHeightInChain ==
    Handled("get_transaction") =>
        IF Len(call.hash) # HashLength
        THEN /\ ret[1].kind = "Err"
             /\ ret[1].code = "InvalidArgument"
             /\ validator_calls = <<>>
        ELSE /\ TransactionFetchedOnce
             /\ (/\ validator_calls[1].answer.kind = "Object"
                 /\ validator_calls[1].answer.height >= 0) => TransactionReturned


\* The txids the validator listed for the address.
ListedTxids == validator_calls[1].answer.transactions

\* The item the producer made for its i-th txid: sent, or still held.
ItemMade(i) == IF i <= Len(sent) THEN sent[i] ELSE item[1]

\* C25: get_taddress_txids: the txid list is fetched once, before streaming;
\* then each txid is fetched with verbosity 1 in list order and produces exactly
\* one stream item: a RawTransaction for an Object answer, an Internal status for
\* a Raw answer, an Internal status for an error of the validator.  Stated for
\* the streams whose consumer stays.
C25_TaddressTxids ==
    (/\ Handled("get_taddress_txids")
     /\ validator_calls # <<>>
     /\ channel_rx # "dropped") =>
        /\ validator_calls[1].method = "get_address_txids"
        /\ IF validator_calls[1].answer.kind = "Err"
           THEN /\ ret[1].kind = "Err"
                /\ Len(validator_calls) = 1
                /\ stream_task = "none"
           ELSE /\ ret[1] = Response("stream")
                /\ Len(validator_calls) - 1 <= Len(ListedTxids)
                /\ stream_task = "exited" => Len(sent) = Len(ListedTxids)
                /\ Len(sent) + Len(item) = Len(validator_calls) - 1
                /\ \A i \in 1 .. Len(validator_calls) - 1 :
                       /\ validator_calls[i + 1].method = "get_raw_transaction"
                       /\ validator_calls[i + 1].verbosity = <<1>>
                       /\ validator_calls[i + 1].arg = <<ListedTxids[i]>>
                       /\ ItemMade(i).of = ListedTxids[i]
                       /\ ItemMade(i).result =
                              IF validator_calls[i + 1].answer.kind = "Object"
                              THEN "RawTransaction" ELSE "Internal"
                       /\ validator_calls[i + 1].answer.kind = "Object" =>
                              ItemMade(i).data = validator_calls[i + 1].answer.hex

\* A stream of two txids read to its end: an Object, then a Raw answer.
C25_Witness ==
    /\ Handled("get_taddress_txids")
    /\ channel_rx = "ended"
    /\ Len(delivered) = 2
    /\ validator_calls[2].answer.kind = "Object"
    /\ validator_calls[3].answer.kind = "Raw"
    /\ delivered[1].result = "RawTransaction"
    /\ delivered[2].result = "Internal"


\* The number a string of decimal digits stands for.
RECURSIVE DecimalValue(_)
DecimalValue(str) ==
    IF str = <<>> THEN 0
    ELSE 10 * DecimalValue(SubSeq(str, 1, Len(str) - 1))
         + (CHOOSE d \in 0 .. 9 : DecimalDigits[d + 1] = str[Len(str)])

IsDecimal(str) ==
    /\ str # <<>>
    /\ \A i \in 1 .. Len(str) : \E d \in 0 .. 9 : DecimalDigits[d + 1] = str[i]
    /\ Len(str) > 1 => str[1] # "0"

\* C26: get_tree_state asks the validator for the tree state by the decimal
\* height when BlockId.height is not 0 and by the hex of BlockId.hash when it is
\* 0, whatever the hash (also an empty one); it fails with the validator's
\* mapped status when get_blockchain_info or get_treestate fails.
C26_GetTreeState ==
    Handled("get_tree_state") =>
        /\ validator_calls[1].method = "get_blockchain_info"
        /\ IF validator_calls[1].answer.kind = "Err"
           THEN /\ Len(validator_calls) = 1
                /\ ret[1] = to_grpc_status(validator_calls[1].answer.error)
           ELSE /\ Len(validator_calls) = 2
                /\ validator_calls[2].method = "get_treestate"
                /\ IF call.block_id.height # 0
                   THEN /\ IsDecimal(validator_calls[2].arg[1])
                        /\ DecimalValue(validator_calls[2].arg[1]) = call.block_id.height
                   ELSE validator_calls[2].arg[1] = HexEncode(call.block_id.hash)
                /\ IF validator_calls[2].answer.kind = "Err"
                   THEN ret[1] = to_grpc_status(validator_calls[2].answer.error)
                   ELSE /\ ret[1].kind = "Ok"
                        /\ ret[1].value.network = validator_calls[1].answer.chain

\* Height 0 and an empty hash: the tree state is asked for by the empty string.
C26_Witness ==
    /\ Handled("get_tree_state")
    /\ call.block_id = [height |-> 0, hash |-> <<>>]
    /\ Len(validator_calls) = 2
    /\ validator_calls[2].arg = <<<<>>>>
    /\ ret[1].kind = "Ok"

\* C27: each of get_block, get_block_nullifiers, get_block_range_nullifiers,
\* get_taddress_balance, get_taddress_balance_stream, get_mempool_tx,
\* get_latest_tree_state, get_subtree_roots, get_address_utxos,
\* get_address_utxos_stream and ping returns the status Unimplemented for every
\* request, calls the validator not once and changes no state: no stream, no
\* task, and the server as it was.
C27_UnimplementedRpcs ==
    (call.fn \in UnimplementedRpcs /\ ret # <<>>) =>
        /\ ret[1].kind = "Err"
        /\ ret[1].code = "Unimplemented"
        /\ validator_calls = <<>>
        /\ NoRpc
        /\ pc = "new"
        /\ server_status = Offline
        /\ workers = <<>>
        /\ queue_status = [q \in Queues |-> 0]

C27_Witness ==
    /\ call = [fn |-> "ping", request |-> "other"]
    /\ ret = <<[kind |-> "Err", code |-> "Unimplemented", message |-> "ping"]>>


(***************************************************************************)
(* The scaling branches of the command loop.                               *)
(***************************************************************************)
\* C28: scale-down always retires the most recently added worker: the handle
\* removed from the Director's list is the one at index count - 1, the last one
\* pushed (or the last initial worker), and that same handle is the one handed
\* to pop_worker.
C28_ScaleDownRetiresNewest ==
    pc = "pop_wait" =>
        /\ workers # <<>>
        /\ popped = workers[Len(workers)]
        /\ worker_handles = SubSeq(workers, 1, Len(workers) - 1)

\* Two workers, both pushed by scale-ups: the second one is being retired.
C28_Witness ==
    /\ pc = "pop_wait"
    /\ idle_size = 0
    /\ Len(workers) = 2
    /\ popped = workers[2]
    /\ worker_handles = <<workers[1]>>

C30_OnePoolMutationPerIteration ==
    [][(Running /\ pc' # pc) =>
          /\ workers' # workers =>
                 \/ /\ pc = "loop"
                    /\ pc' = "load_request"
                    /\ Len(workers') = Len(workers) + 1
                 \/ /\ pc = "pop_wait"
                    /\ pc' = "load_request"
                    /\ Len(workers') = Len(workers) - 1
          /\ pc' = "pop_wait" => (pc = "elseif" /\ workers' = workers)
          /\ pc' = "elseif" => (pc = "loop" /\ workers' = workers)
          /\ pc' = "loop" => (pc = "check" /\ workers' = workers)
          /\ (pc = "loop" /\ ScaleUpCondition /\ ScaleDownCondition) =>
                 /\ pc' = "load_request"
                 /\ workers' = Append(workers, FreshWorker)]_vars

\* A scale-up taken while the second test held as well: one request in a queue
\* of capacity 4, one worker above the idle size and below the maximum before.
C30_Witness ==
    /\ pc = "load_request"
    /\ max_length \div ScaleUpDivisor <= ScaleDownLength
    /\ queue_length("request") = ScaleDownLength
    /\ WorkerCount = max_size
    /\ WorkerCount - 1 > idle_size
    /\ worker_handles = workers
    /\ popped = 0


(***************************************************************************)
(* The command loop, the spawn and the shutdown sequence, continued.       *)
(***************************************************************************)
\* The three cases in which neither test of the scaling step holds, on the
\* length and the count the step reads.
NeitherConditionApplies ==
    LET length == queue_status["request"]
        quarter == cfg.max_queue_size \div 4
        count == Len(workers)
    IN  \/ UsizeGT(length, 1) /\ UsizeLT(length, quarter)
        \/ /\ UsizeGE(length, quarter)
           /\ count = cfg.max_worker_pool_size
           /\ UsizeGT(length, 1)
        \/ /\ UsizeLE(length, 1)
           /\ UsizeLT(length, quarter)
           /\ count = cfg.idle_worker_pool_size

PoolUnchanged == workers' = workers /\ worker_handles' = worker_handles

\* C31: an iteration of the command loop leaves the worker count and the handle
\* list unchanged when neither condition applies, that is when the queue length
\* is in the band 1 < length < capacity / 4, or is >= capacity / 4 with the count
\* at max_size and length > 1, or is <= 1 and below capacity / 4 with the count
\* at idle_size: both tests fail, no pool call is made, and the rest of the
\* iteration (statuses, the shutdown check, the tick) does not touch the pool.
C31_NoScalingLeavesPoolUnchanged ==
    /\ [][(pc = "loop" /\ NeitherConditionApplies /\ pc' # pc)
          => (pc' = "elseif" /\ PoolUnchanged)]_vars
    /\ [][(pc = "elseif" /\ NeitherConditionApplies /\ pc' # pc)
          => (pc' = "load_request" /\ PoolUnchanged)]_vars
    /\ [][(pc \in {"load_request", "store_request", "load_nym_response",
                   "store_nym_response", "check"} /\ pc' \notin ShutdownPcs)
          => PoolUnchanged]_vars

\* An iteration with two requests in a queue of capacity 12 has reached its
\* shutdown check with the pool as it was, between idle_size and max_size.
C31_Witness ==
    /\ pc = "check"
    /\ online
    /\ cfg.max_queue_size = 12
    /\ queue_status["request"] = 2
    /\ cfg.idle_worker_pool_size < Len(workers)
    /\ Len(workers) < cfg.max_worker_pool_size
    /\ worker_handles = workers
    /\ \A w \in WorkerIds : wtask[w] \in {"none", "ready"}

\* C32: if the request-queue length stays at a value <= 1 and idle_size <
\* max_size (and the server stays online), the worker count eventually reaches
\* idle_size and stays there for good, whatever the capacity of the queue, the
\* capacities below 8 included.
C32_WorkerCountSettlesAtIdle ==
    [](/\ UsizeLE(queue_status["request"], 1)
       /\ cfg.idle_worker_pool_size < cfg.max_worker_pool_size
       /\ online)
        => <>[](Len(workers) = cfg.idle_worker_pool_size)

\* The same holds of the lengths below the quarter of the capacity: length 1
\* with a capacity of 8 or more, length 0 with a capacity of 4 or more.
WorkerCountSettlesAtIdleBelowQuarter ==
    [](/\ UsizeLE(queue_status["request"], 1)
       /\ UsizeLT(queue_status["request"], cfg.max_queue_size \div 4)
       /\ cfg.idle_worker_pool_size < cfg.max_worker_pool_size
       /\ online)
        => <>[](Len(workers) = cfg.idle_worker_pool_size)

ScalingPcs == {"loop", "elseif", "pop_wait"}

\* C33: the shutdown check runs in every iteration of the command loop, the
\* first included: after the iteration's scaling step and statuses(), and before
\* the wait for the next tick, which is only taken when the check was false.
\* Hence once the online flag is false the supervisor makes at most the one
\* push_worker or pop_worker of the iteration it is in: past that scaling step
\* it never comes back to one, and starts the shutdown at the check.
C33_ShutdownCheckedEveryIteration ==
    /\ [][(pc \in ScalingPcs /\ pc' \notin ScalingPcs) => pc' = "load_request"]_vars
    /\ [][(pc' = "check" /\ pc # "check") => pc = "store_nym_response"]_vars
    /\ [][(pc' = "loop" /\ pc # "loop")
          => \/ pc = "spawned"
             \/ pc = "check" /\ online /\ server_status < 4]_vars
    /\ [][(pc = "check" /\ pc' # pc /\ ~online)
          => (pc' = "shutdown_tcp" /\ server_status' = 4)]_vars
    /\ [][~online => ~online']_vars
    /\ [][(Running /\ ~online /\ pc \notin ScalingPcs) => pc' \notin ScalingPcs]_vars
    /\ [][(Running /\ ~PoolUnchanged) => pc \in ScalingPcs]_vars

\* The online flag is false and the supervisor, having grown the pool, has begun
\* to shut the components down.
C33_Witness ==
    /\ ~online
    /\ pc = "shutdown_tcp"
    /\ server_status = 4
    /\ Len(workers) = cfg.idle_worker_pool_size + 1
    /\ worker_handles = workers

\* C34: along every run of a successfully spawned server the values written to
\* the server status slot form a prefix of Offline (5), Spawning (0), Ready (1),
\* ShuttingDown (4), Offline (5); Ready is stored only once the ingestors and
\* the pool have been launched; Working (2) and Draining (3) are never stored.
C34_ServerStatusWritesInOrder ==
    /\ [][server_status' # server_status
          => \/ pc = "new" /\ server_status = 5 /\ server_status' = 0
             \/ server_status = 0 /\ server_status' = 1
             \/ server_status = 1 /\ server_status' = 4
             \/ server_status = 4 /\ server_status' = 5 /\ pc' = "done"]_vars
    /\ [][(server_status' = 1 /\ server_status # 1)
          => /\ cfg.tcp_active => tcp_task' = "serving"
             /\ cfg.nym_active => nym_task' = "serving"
             /\ worker_handles' = workers'
             /\ \A i \in 1 .. Len(workers') : wtask'[workers'[i]] = "ready"]_vars
    /\ [](server_status \notin {2, 3})

\* The stores of Server::spawn and Server::serve by themselves do come in that
\* order, each at its place in the run, whatever Server::shutdown stored in
\* between.
ServerStatusWritesOfSpawnAndServeInOrder ==
    /\ [][(server_status' # server_status /\ pc' # pc)
          => \/ pc = "new" /\ server_status = 5 /\ server_status' = 0
             \/ pc = "spawned" /\ server_status \in {0, 4} /\ server_status' = 1
             \/ pc = "check" /\ server_status = 1 /\ server_status' = 4
             \/ pc = "store_offline" /\ server_status = 4 /\ server_status' = 5]_vars
    /\ [][(server_status' = 1 /\ server_status # 1)
          => /\ cfg.tcp_active => tcp_task' = "serving"
             /\ cfg.nym_active => nym_task' = "serving"
             /\ worker_handles' = workers'
             /\ \A i \in 1 .. Len(workers') : wtask'[workers'[i]] = "ready"]_vars
    /\ [](server_status \notin {2, 3})
    /\ [](pc \in {"new", "config_error"} => server_status = 5)
    /\ []((Running /\ pc \notin ShutdownPcs /\ pc # "done") => server_status = 1)

\* C35: a Server::spawn that fails its validation leaves every status slot and
\* both queue-length counters as they were on entry: the server status is not
\* set to Spawning, no queue is created and nothing is launched.
C35_FailedSpawnWritesNothing ==
    /\ [][(pc = "new" /\ pc' = "config_error")
          => /\ server_status' = server_status
             /\ tcp_ingestor_status' = tcp_ingestor_status
             /\ nym_ingestor_status' = nym_ingestor_status
             /\ queue_status' = queue_status
             /\ channel' = channel]_vars
    /\ [](pc = "config_error"
          => /\ server_status = Offline
             /\ tcp_ingestor_status = Offline
             /\ nym_ingestor_status = Offline
             /\ \A q \in Queues : queue_status[q] = 0 /\ channel[q] = 0)

C35_Witness ==
    /\ pc = "config_error"
    /\ ~cfg.tcp_active /\ ~cfg.nym_active
    /\ server_status = Offline
    /\ \A q \in Queues : queue_status[q] = 0

\* C36: shutdown_components stops the components in the order TCP ingestor, nym
\* ingestor, worker pool: the nym ingestor is signalled (4) only after the TCP
\* ingestor's task was joined, the pool is shut down only after both ingestors
\* were joined, and a component that was not launched is skipped without its
\* slot being written.
C36_ShutdownComponentsInOrder ==
    /\ [][(tcp_ingestor_status' = 4 /\ tcp_ingestor_status # 4)
          => (pc = "shutdown_tcp" /\ tcp_task # "none")]_vars
    /\ [][(nym_ingestor_status' = 4 /\ nym_ingestor_status # 4)
          => /\ pc = "shutdown_nym"
             /\ nym_task # "none"
             /\ tcp_task \in {"none", "joined"}]_vars
    /\ [](pc \in {"shutdown_nym", "join_nym"} => tcp_task \in {"none", "joined"})
    /\ [](pc \in {"shutdown_workers", "join_workers", "store_offline", "done"}
          => /\ tcp_task \in {"none", "joined"}
             /\ nym_task \in {"none", "joined"})
    /\ [][(pc \in ShutdownPcs /\ (wsignal' # wsignal \/ wtask' # wtask) /\ pc' # pc)
          => pc \in {"shutdown_workers", "join_workers"}]_vars
    /\ [][(pc = "shutdown_tcp" /\ pc' # pc /\ ~cfg.tcp_active)
          => /\ pc' = "shutdown_nym"
             /\ tcp_ingestor_status' = tcp_ingestor_status
             /\ tcp_task' = "none"]_vars
    /\ [][(pc = "shutdown_nym" /\ pc' # pc /\ ~cfg.nym_active)
          => /\ pc' = "shutdown_workers"
             /\ nym_ingestor_status' = nym_ingestor_status
             /\ nym_task' = "none"]_vars
    /\ [](~cfg.tcp_active => tcp_ingestor_status = Offline)
    /\ [](~cfg.nym_active => nym_ingestor_status = Offline)

\* A server launched without the nym ingestor has shut down: the TCP ingestor
\* and the workers are joined, the nym slot was never written.
C36_Witness ==
    /\ pc = "done"
    /\ cfg.tcp_active /\ tcp_task = "joined"
    /\ ~cfg.nym_active /\ nym_task = "none"
    /\ nym_ingestor_status = Offline
    /\ Len(worker_handles) >= 1
    /\ \A i \in 1 .. Len(worker_handles) : wtask[worker_handles[i]] = "joined"


(***************************************************************************)
(* get_block_range and read_zcash_script_i64, continued.                   *)
(***************************************************************************)
\* The bounds of the range the handler iterates: the low 32 bits of the two
\* heights, the smaller first.
TruncatedLow == IF call.start[1].lo > call.end[1].lo THEN call.end[1].lo ELSE call.start[1].lo
TruncatedHigh == IF call.start[1].lo > call.end[1].lo THEN call.start[1].lo ELSE call.end[1].lo

BlockRangeStreamed ==
    /\ Handled("get_block_range")
    /\ call.start # <<>>
    /\ call.end # <<>>
    /\ channel_rx # "dropped"

\* C37: in get_block_range a failed fetch of the block at one height makes
\* exactly one Internal error item for that height (a fetched block makes one
\* block item), and does not end the stream: the producer goes on with the next
\* height and, the consumer staying, has sent hi - lo items when it exits,
\* however many fetches failed.
C37_FailedFetchSendsOneItemAndContinues ==
    BlockRangeStreamed =>
        /\ Len(sent) + Len(item) = Len(validator_calls)
        /\ \A i \in 1 .. Len(validator_calls) :
              LET fetch == validator_calls[i] IN
              /\ ItemMade(i).of = fetch.arg[1]
              /\ fetch.answer.kind = "Err" =>
                    (ItemMade(i).result = "Internal"
                     /\ ItemMade(i).message = fetch.answer.error)
              /\ fetch.answer.kind = "Ok" => ItemMade(i).result = "CompactBlock"
        /\ stream_task = "exited" =>
              (iter = <<>> /\ Len(sent) = TruncatedHigh - TruncatedLow)
        /\ (stream_task = "next" /\ iter = <<>>) =>
              Len(sent) = TruncatedHigh - TruncatedLow

\* A stream read to its end whose first fetch failed and whose later ones did
\* not.
C37_Witness ==
    /\ BlockRangeStreamed
    /\ channel_rx = "ended"
    /\ Len(delivered) = TruncatedHigh - TruncatedLow
    /\ Len(delivered) >= 3
    /\ delivered[1].result = "Internal"
    /\ delivered[2].result = "CompactBlock"
    /\ delivered[3].result = "Internal"

\* C38: get_block_range truncates the 64-bit heights of the request to 32 bits
\* before it compares and swaps them: the heights visited are those from
\* min(s mod 2^32, e mod 2^32) up to, not including, max(s mod 2^32, e mod 2^32),
\* in ascending order with one item each; for heights below 2^32 this is the
\* requested range.
C38_BlockRangeOfTruncatedHeights ==
    BlockRangeStreamed =>
        /\ BlockRangeClaim(U64(0, TruncatedLow), U64(0, TruncatedHigh))
        /\ (call.start[1].hi = 0 /\ call.end[1].hi = 0) =>
              /\ U64(0, TruncatedLow) = Min64(call.start[1], call.end[1])
              /\ U64(0, TruncatedHigh) = Max64(call.start[1], call.end[1])

\* A request whose start is 2^32 and whose end is below it: the stream, read to
\* its end, went from 0 up to the end.
C38_Witness ==
    /\ BlockRangeStreamed
    /\ call.start[1] = U64(1, 0)
    /\ call.end[1].hi = 0
    /\ call.end[1].lo >= 2
    /\ channel_rx = "ended"
    /\ Len(delivered) = call.end[1].lo
    /\ delivered[1].of = 0

\* C39: read_zcash_script_i64 on a first byte k that is a length: with k bytes
\* behind it, it succeeds having consumed exactly 1 + k bytes, and the result is
\* the little-endian value of the payload kept to 64 bits (its first eight
\* bytes; the later ones are shifted out), so that k <= 7 gives a non-negative
\* number; with fewer than k bytes behind it, it fails with InvalidData.
C39_ScriptNumberConsumesLengthAndPayload ==
    (/\ Returned("read_zcash_script_i64")
     /\ call.pos < Len(call.data)
     /\ call.data[call.pos + 1] \notin {0, 79} \cup (81 .. 96)) =>
        LET k == call.data[call.pos + 1] IN
        IF Len(call.data) - (call.pos + 1) >= k
        THEN /\ ret[1].kind = "Ok"
             /\ ret[1].pos = call.pos + 1 + k
             /\ ret[1].value =
                   [i \in 1 .. 8 |-> IF i <= k THEN call.data[call.pos + 1 + i] ELSE 0]
             /\ k <= 7 => ret[1].value[8] < 128
        ELSE /\ ret[1].kind = "InvalidData"
             /\ ret[1].msg = "Error reading i64 script hash"

\* A payload of nine bytes: ten bytes consumed, the ninth byte without effect.
C39_Witness ==
    /\ Returned("read_zcash_script_i64")
    /\ call.pos = 0
    /\ Len(call.data) = 10
    /\ call.data[1] = 9
    /\ call.data[10] # 0
    /\ ret[1].kind = "Ok"
    /\ ret[1].pos = 10
    /\ ret[1].value = SubSeq(call.data, 2, 9)

==========================================================================
